---- MODULE Spec2Model ----
(***************************************************************************)
(* A model of the UDF -> PDF converter of backend/udf_converter.py:        *)
(* the paragraph handler (run slicing, chunking, inline images), the table *)
(* handler (row splitting), the element dispatch of _process_elements, the *)
(* background image of _process_background_image and the handler registry  *)
(* (PluginRegistry) under concurrent first use.                            *)
(*                                                                         *)
(* Text is modelled by TLA+ strings, so len(), slicing and concatenation   *)
(* are those of the source.  An XML attribute is a record                  *)
(* [kind |-> "absent" | "num" | "bad", val |-> n]: missing, parsable as a  *)
(* number, or present and not parsable.  A call that can raise returns     *)
(* [ok |-> FALSE] in place of its value.                                   *)
(***************************************************************************)
EXTENDS Integers, Sequences, FiniteSets, TLC

\* ------------------------------------------------------------ constants
MAX_TEXT_CHUNK_LENGTH == 1000
MAX_INLINE_IMAGE_WIDTH == 450
MAX_INLINE_IMAGE_HEIGHT == 600
MAX_PARAGRAPHS_PER_CELL == 3
MAX_IMAGE_PIXELS == 89478485
MAX_IMAGE_WIDTH == 10000
MAX_IMAGE_HEIGHT == 10000

\* ------------------------------------------------------------ bounds
\* Length of the shared content buffer.
ContentLen == 1005
\* Children of the paragraph handled in SpecParagraph.
MaxChildren == 3

\* ------------------------------------------------------------ attributes
Absent == [kind |-> "absent", val |-> 0]
Num(n) == [kind |-> "num", val |-> n]
Bad == [kind |-> "bad", val |-> 0]

Raise == [ok |-> FALSE]
Ok(v) == [ok |-> TRUE, val |-> v]

\* int(node.get(name, default)) and float(node.get(name, default)): the default
\* when the attribute is missing, ValueError when it does not parse.
ParseNum(attr, default) ==
    IF attr.kind = "absent" THEN Ok(default)
    ELSE IF attr.kind = "num" THEN Ok(attr.val)
    ELSE Raise

\* ------------------------------------------------------------ text
RECURSIVE Rep(_, _)
Rep(s, n) == IF n <= 0 THEN "" ELSE s \o Rep(s, n - 1)

\* converter.content_text: the shared buffer the runs point into.
content_text == SubSeq(Rep("abcdefg", ContentLen \div 7 + 1), 1, ContentLen)

\* Python's s[a:b]: a negative index counts from the end, and both ends are
\* clamped to 0..len(s).
PyIndex(n, i) ==
    IF i < 0 THEN (IF i + n < 0 THEN 0 ELSE i + n)
    ELSE (IF i > n THEN n ELSE i)

PySlice(s, a, b) ==
    LET lo == PyIndex(Len(s), a)
        hi == PyIndex(Len(s), b)
    IN IF lo >= hi THEN "" ELSE SubSeq(s, lo + 1, hi)

\* A nesting with bold outside underline.
format_text_styles_bold_outermost(text, bold, italic, underline) ==
    (IF bold THEN "<b>" ELSE "") \o (IF underline THEN "<u>" ELSE "")
        \o (IF italic THEN "<i>" ELSE "") \o text
        \o (IF italic THEN "</i>" ELSE "") \o (IF underline THEN "</u>" ELSE "")
        \o (IF bold THEN "</b>" ELSE "")

\* format_text_styles (lines 109-118)
format_text_styles(text, bold, italic, underline) ==
    IF bold /\ italic /\ underline THEN "<u><b><i>" \o text \o "</i></b></u>"
    ELSE IF bold /\ italic THEN "<b><i>" \o text \o "</i></b>"
    ELSE IF bold /\ underline THEN "<u><b>" \o text \o "</b></u>"
    ELSE IF italic /\ underline THEN "<u><i>" \o text \o "</i></u>"
    ELSE IF bold THEN "<b>" \o text \o "</b>"
    ELSE IF italic THEN "<i>" \o text \o "</i>"
    ELSE IF underline THEN "<u>" \o text \o "</u>"
    ELSE text

\* ------------------------------------------------------------ images
\* The bytes of an image attribute or file, by what decoding them gives:
\*   "none"   the attribute is missing or empty
\*   "badb64" base64.b64decode raises
\*   "noimg"  PIL cannot open the bytes
\*   "img"    an image of width x height pixels
NoImage == [data |-> "none", width |-> 0, height |-> 0]
Picture(w, h) == [data |-> "img", width |-> w, height |-> h]

\* A check of the dimensions alone.
validate_image_safety_dimensions_only(image) ==
    image.data = "img" /\ image.width <= MAX_IMAGE_WIDTH /\ image.height <= MAX_IMAGE_HEIGHT

\* validate_image_safety: TRUE when it returns the image, FALSE when None.
validate_image_safety(image) ==
    IF image.data # "img" THEN FALSE
    ELSE IF image.width * image.height > MAX_IMAGE_PIXELS THEN FALSE
    ELSE IF image.width > MAX_IMAGE_WIDTH \/ image.height > MAX_IMAGE_HEIGHT THEN FALSE
    ELSE TRUE

\* The reportlab Image of an inline image; ratio <<n, d>> is the factor n/d the
\* draw size is scaled by.
ImageBlock(image) ==
    LET w == image.width
        h == image.height
        ratio == IF w > MAX_INLINE_IMAGE_WIDTH \/ h > MAX_INLINE_IMAGE_HEIGHT
                 THEN (IF MAX_INLINE_IMAGE_WIDTH * h <= MAX_INLINE_IMAGE_HEIGHT * w
                       THEN <<MAX_INLINE_IMAGE_WIDTH, w>>
                       ELSE <<MAX_INLINE_IMAGE_HEIGHT, h>>)
                 ELSE <<1, 1>>
    IN [kind |-> "Image", width |-> w, height |-> h, ratio |-> ratio]

\* ParagraphHandler._process_inline_image: the Image, or None.
None == [kind |-> "None"]

process_inline_image(node) ==
    IF node.image.data = "none" THEN None
    ELSE IF node.image.data = "badb64" THEN None
    ELSE IF ~validate_image_safety(node.image) THEN None
    ELSE ImageBlock(node.image)

\* ------------------------------------------------------------ paragraph handler
\* An XML node is a record; the fields a tag does not use keep their defaults.
Node(tag) ==
    [tag |-> tag, startOffset |-> Absent, length |-> Absent,
     bold |-> FALSE, italic |-> FALSE, underline |-> FALSE,
     fieldName |-> "", image |-> NoImage]

ContentRun(start, len) == [Node("content") EXCEPT !.startOffset = start, !.length = len]
FieldRun(name, start, len) ==
    [Node("field") EXCEPT !.fieldName = name, !.startOffset = start, !.length = len]
ImageRun(image) == [Node("image") EXCEPT !.image = image]
Styled(node, b, i, u) == [node EXCEPT !.bold = b, !.italic = i, !.underline = u]

\* The attributes of a <paragraph>; sizes and spacings are in tenths.
ParaAttrs(align, spacing, size, left, right, first) ==
    [Alignment |-> align, LineSpacing |-> spacing, size |-> size,
     LeftIndent |-> left, RightIndent |-> right, FirstLineIndent |-> first]
PlainAttrs == ParaAttrs(Absent, Absent, Absent, Absent, Absent, Absent)

get_alignment_style(attr) ==
    IF attr.kind = "num" /\ attr.val = 1 THEN "TA_CENTER"
    ELSE IF attr.kind = "num" /\ attr.val = 3 THEN "TA_JUSTIFY"
    ELSE IF attr.kind = "num" /\ attr.val = 2 THEN "TA_RIGHT"
    ELSE "TA_LEFT"

Max2(a, b) == IF a >= b THEN a ELSE b
Min2(a, b) == IF a <= b THEN a ELSE b

\* Lines 173-192: the ParagraphStyle of the paragraph.  Tenths: 12 is the
\* default LineSpacing 1.2, 120 the default size 12, 80 and 720 the font size
\* limits 8.0 and 72.0; leading is in hundredths.
paragraph_style(attrs) ==
    LET ls == ParseNum(attrs.LineSpacing, 12)
        sz == ParseNum(attrs.size, 120)
        li == ParseNum(attrs.LeftIndent, 0)
        ri == ParseNum(attrs.RightIndent, 0)
        fi == ParseNum(attrs.FirstLineIndent, 0)
    IN IF ~(ls.ok /\ sz.ok /\ li.ok /\ ri.ok /\ fi.ok) THEN Raise
       ELSE LET line_spacing == IF ls.val < 1 THEN 10 ELSE ls.val
                size == Max2(80, Min2(sz.val, 720))
            IN Ok([alignment |-> get_alignment_style(attrs.Alignment),
                   leftIndent |-> li.val, rightIndent |-> ri.val,
                   firstLineIndent |-> fi.val, fontSize |-> size,
                   leading |-> size * Max2(10, line_spacing)])

\* A slice that takes length as the end index.
process_text_node_end_is_length(node) ==
    LET start == ParseNum(node.startOffset, 0)
        length == ParseNum(node.length, 0)
    IN IF ~(start.ok /\ length.ok) THEN Raise
       ELSE Ok(format_text_styles(
                PySlice(content_text, start.val, length.val),
                node.bold, node.italic, node.underline))

\* ParagraphHandler._process_text_node
process_text_node(node) ==
    LET start == ParseNum(node.startOffset, 0)
        length == ParseNum(node.length, 0)
    IN IF ~(start.ok /\ length.ok) THEN Raise
       ELSE Ok(format_text_styles(
                PySlice(content_text, start.val, start.val + length.val),
                node.bold, node.italic, node.underline))

\* ParagraphHandler._process_field_node: int(node.get('length')) raises when
\* startOffset is given and length is missing or does not parse.
process_field_node(node) ==
    IF node.startOffset.kind = "absent"
    THEN Ok(format_text_styles(node.fieldName, node.bold, node.italic, node.underline))
    ELSE IF node.startOffset.kind # "num" \/ node.length.kind # "num" THEN Raise
    ELSE Ok(format_text_styles(
                PySlice(content_text, node.startOffset.val,
                        node.startOffset.val + node.length.val),
                node.bold, node.italic, node.underline))

TextBlock(text, style) == [kind |-> "Paragraph", text |-> text, style |-> style]

\* isinstance(f, Paragraph), and the flowables of a list it holds of.
IsTextBlock(b) == b.kind = "Paragraph"
TextBlocksOf(blocks) == SelectSeq(blocks, IsTextBlock)

\* An overflow that restarts current_text without flushing it.
accumulate_no_flush(st, chunk, style) ==
    IF Len(st.current_text) + Len(chunk) > MAX_TEXT_CHUNK_LENGTH
    THEN [st EXCEPT !.current_text = chunk, !.chunk = chunk]
    ELSE [st EXCEPT !.current_text = @ \o chunk, !.chunk = chunk]

\* Lines 216-220: the chunk joins current_text, or current_text is flushed.
accumulate(st, chunk, style) ==
    IF Len(st.current_text) + Len(chunk) > MAX_TEXT_CHUNK_LENGTH
    THEN [st EXCEPT !.paragraphs = Append(@, TextBlock(st.current_text, style)),
                    !.current_text = chunk, !.chunk = chunk]
    ELSE [st EXCEPT !.current_text = @ \o chunk, !.chunk = chunk]

\* The placeholder token of line 214, "[G\"ORSEL]": eight characters, its
\* second written in ASCII here.
ImagePlaceholder == "[GORSEL]"

\* Lines 207-214: an inline image that validates flushes the text and joins
\* images; any other gives the placeholder chunk.
inline_image(st, node, style) ==
    LET img == process_inline_image(node)
    IN IF img # None
       THEN accumulate(
              [st EXCEPT !.paragraphs = IF st.current_text # ""
                                        THEN Append(@, TextBlock(st.current_text, style))
                                        ELSE @,
                         !.current_text = "",
                         !.images = Append(@, img)],
              "", style)
       ELSE accumulate(st, ImagePlaceholder, style)

\* The chunk of a run joins the text, unless producing it raised.
accumulate_result(st, r, style) ==
    IF r.ok THEN Ok(accumulate(st, r.val, style)) ELSE Raise

\* Lines 198-220: one iteration of the loop over the paragraph's children.
para_loop_body(st, child, style) ==
    IF child.tag = "content"
    THEN accumulate_result(st, process_text_node(child), style)
    ELSE IF child.tag = "field"
    THEN accumulate_result(st, process_field_node(child), style)
    ELSE IF child.tag = "space" THEN Ok(accumulate(st, " ", style))
    ELSE IF child.tag = "image" THEN Ok(inline_image(st, child, style))
    ELSE Ok(accumulate(st, "", style))

\* Lines 194-196.
para_loop_start ==
    [current_text |-> "", paragraphs |-> <<>>, images |-> <<>>, chunk |-> ""]

\* Lines 222-225: the last flush and the returned list.
para_return(st, style) ==
    (IF st.current_text # ""
     THEN Append(st.paragraphs, TextBlock(st.current_text, style))
     ELSE st.paragraphs) \o st.images

\* Lines 198-220: the loop from child i on; r is the state so far, or the
\* exception that ended the loop.
RECURSIVE para_loop(_, _, _, _)
para_loop(r, children, i, style) ==
    IF ~r.ok \/ i > Len(children) THEN r
    ELSE para_loop(para_loop_body(r.val, children[i], style), children, i + 1, style)

\* Lines 222-225 after the loop.
para_result_of(r, style) ==
    IF r.ok THEN Ok(para_return(r.val, style)) ELSE Raise

\* Lines 194-225 under the style built in lines 173-192.
para_with_style(style, children) ==
    IF ~style.ok THEN Raise
    ELSE para_result_of(para_loop(Ok(para_loop_start), children, 1, style.val),
                        style.val)

\* ParagraphHandler.handle: the list of flowables, or the exception.
paragraph_handle(para_elem) ==
    para_with_style(paragraph_style(para_elem.attrs), para_elem.children)

\* ------------------------------------------------------------ SpecParagraph
\* One call of ParagraphHandler.handle, one child per step.  para_children is
\* the part of the paragraph's child list the loop has consumed.
VARIABLES para_attrs, para_children, para_style, current_text, paragraphs,
          images, chunk, para_result, para_pc

paraVars == <<para_attrs, para_children, para_style, current_text, paragraphs,
              images, chunk, para_result, para_pc>>

ParaAttrInputs ==
    { PlainAttrs,
      ParaAttrs(Num(1), Num(0), Num(2000), Absent, Num(50), Absent),
      ParaAttrs(Absent, Bad, Absent, Absent, Absent, Absent) }

ChildInputs ==
    { ContentRun(Num(0), Num(3)),
      Styled(ContentRun(Num(2), Num(4)), TRUE, FALSE, FALSE),
      ContentRun(Num(0), Num(600)),
      ContentRun(Num(5), Num(MAX_TEXT_CHUNK_LENGTH)),
      ContentRun(Num(3), Num(MAX_TEXT_CHUNK_LENGTH + 1)),
      ContentRun(Num(ContentLen - 2), Num(5)),
      ContentRun(Num(ContentLen + 10), Num(3)),
      ContentRun(Num(-2), Num(1)),
      ContentRun(Bad, Num(1)),
      Styled(FieldRun("tarih", Absent, Absent), FALSE, TRUE, TRUE),
      FieldRun("x", Num(1), Absent),
      Node("space"),
      ImageRun(Picture(100, 50)),
      ImageRun(Picture(9460, 9460)),
      ImageRun([data |-> "noimg", width |-> 0, height |-> 0]) }

ParaIdle ==
    /\ para_attrs = PlainAttrs
    /\ para_children = <<>>
    /\ para_style = None
    /\ current_text = ""
    /\ paragraphs = <<>>
    /\ images = <<>>
    /\ chunk = ""
    /\ para_result = <<>>
    /\ para_pc = "idle"

ParaInit ==
    /\ para_attrs \in ParaAttrInputs
    /\ para_children = <<>>
    /\ para_style = None
    /\ current_text = ""
    /\ paragraphs = <<>>
    /\ images = <<>>
    /\ chunk = ""
    /\ para_result = <<>>
    /\ para_pc = "start"

ParaLoopState ==
    [current_text |-> current_text, paragraphs |-> paragraphs,
     images |-> images, chunk |-> chunk]

\* Lines 173-196.
ParaStart ==
    /\ para_pc = "start"
    /\ \E style \in {paragraph_style(para_attrs)} :
          IF style.ok
          THEN /\ para_style' = style.val
               /\ para_pc' = "loop"
          ELSE /\ para_style' = para_style
               /\ para_pc' = "raised"
    /\ UNCHANGED <<para_attrs, para_children, current_text, paragraphs, images,
                   chunk, para_result>>

\* Lines 198-220, for the next child of the paragraph.
ParaChild ==
    /\ para_pc = "loop"
    /\ Len(para_children) < MaxChildren
    /\ \E child \in ChildInputs :
         /\ para_children' = Append(para_children, child)
         /\ \E r \in {para_loop_body(ParaLoopState, child, para_style)} :
               IF r.ok
               THEN /\ current_text' = r.val.current_text
                    /\ paragraphs' = r.val.paragraphs
                    /\ images' = r.val.images
                    /\ chunk' = r.val.chunk
                    /\ para_pc' = "loop"
               ELSE /\ UNCHANGED <<current_text, paragraphs, images, chunk>>
                    /\ para_pc' = "raised"
    /\ UNCHANGED <<para_attrs, para_style, para_result>>

\* Lines 222-225, when the children are exhausted.
ParaReturn ==
    /\ para_pc = "loop"
    /\ para_result' = para_return(ParaLoopState, para_style)
    /\ para_pc' = "returned"
    /\ UNCHANGED <<para_attrs, para_children, para_style, current_text,
                   paragraphs, images, chunk>>

ParaNext == ParaStart \/ ParaChild \/ ParaReturn

\* ------------------------------------------------------------ claims: paragraph
RECURSIVE ConcatTexts(_)
ConcatTexts(blocks) ==
    IF blocks = <<>> THEN "" ELSE Head(blocks).text \o ConcatTexts(Tail(blocks))

\* The text one run contributes to the paragraph (of a run that does not raise).
RunText(child) ==
    IF child.tag = "content" THEN process_text_node(child).val
    ELSE IF child.tag = "field" THEN process_field_node(child).val
    ELSE IF child.tag = "space" THEN " "
    ELSE IF child.tag = "image"
         THEN (IF process_inline_image(child) = None THEN ImagePlaceholder ELSE "")
    ELSE ""

RECURSIVE RunTexts(_)
RunTexts(children) ==
    IF children = <<>> THEN "" ELSE RunText(Head(children)) \o RunTexts(Tail(children))

\* C7: every text block returned by ParagraphHandler.handle holds at most
\* MAX_TEXT_CHUNK_LENGTH characters.
C7_TextBlocksWithinCap ==
    para_pc = "returned" =>
        \A i \in 1..Len(para_result) :
            IsTextBlock(para_result[i]) =>
                Len(para_result[i].text) <= MAX_TEXT_CHUNK_LENGTH

\* C8: the texts of the returned text blocks, concatenated in output order, are
\* the run texts concatenated in document order, and run text longer than
\* MAX_TEXT_CHUNK_LENGTH gives more than one text block.
C8_ChunksReproduceText ==
    para_pc = "returned" =>
        /\ ConcatTexts(TextBlocksOf(para_result)) = RunTexts(para_children)
        /\ Len(RunTexts(para_children)) > MAX_TEXT_CHUNK_LENGTH
              => Len(TextBlocksOf(para_result)) > 1

C8_Witness ==
    /\ para_pc = "returned"
    /\ Len(para_children) >= 2
    /\ Len(RunTexts(para_children)) > MAX_TEXT_CHUNK_LENGTH
    /\ Len(TextBlocksOf(para_result)) > 1

\* The characters of the buffer at positions start .. start+length-1 that
\* exist: the span clipped to the buffer end.
ClippedSpan(start, length) ==
    SubSeq(content_text, start + 1, Min2(start + length, Len(content_text)))

LastChild == para_children[Len(para_children)]
IsSpanRun(child) ==
    /\ child.tag = "content"
    /\ child.startOffset.kind = "num"
    /\ child.length.kind = "num"

\* C9: the chunk of a text run (start, length) is the span of the buffer
\* clipped to the buffer end, in the run's style markup, and a run whose
\* span is out of range does not raise.
C9_TextRunIsClippedSpan ==
    (para_children # <<>> /\ IsSpanRun(LastChild)) =>
        /\ para_pc # "raised"
        /\ (LastChild.startOffset.val >= 0 /\ LastChild.length.val >= 0) =>
              chunk = format_text_styles(
                          ClippedSpan(LastChild.startOffset.val, LastChild.length.val),
                          LastChild.bold, LastChild.italic, LastChild.underline)

C9_Witness ==
    /\ para_pc = "returned"
    /\ para_children # <<>>
    /\ IsSpanRun(LastChild)
    /\ LastChild.startOffset.val < Len(content_text)
    /\ LastChild.startOffset.val + LastChild.length.val > Len(content_text)
    /\ chunk # ""

\* An inline image run that decodes and validates.
ValidImage(child) == child.tag = "image" /\ process_inline_image(child) # None

\* The image runs that validate among the first n children.
ValidImagesIn(children, n) == {j \in 1..n : ValidImage(children[j])}

\* The blocks that are not text among the first n blocks.
ImageBlocksIn(blocks, n) == {q \in 1..n : ~IsTextBlock(blocks[q])}

\* The ImageBlock of the image run at position i is at position p of the
\* result, after exactly the text of the runs before it.
ImageInPlace(i, p) ==
    /\ ~IsTextBlock(para_result[p])
    /\ para_result[p] = process_inline_image(para_children[i])
    /\ Cardinality(ImageBlocksIn(para_result, p - 1))
          = Cardinality(ValidImagesIn(para_children, i - 1))
    /\ ConcatTexts(TextBlocksOf(SubSeq(para_result, 1, p - 1)))
          = RunTexts(SubSeq(para_children, 1, i - 1))

\* C17: the blocks ParagraphHandler.handle returns are in document order: the
\* ImageBlock of an inline image that validates follows the text of the runs
\* before it and precedes the text of the runs after it; an image that fails
\* leaves the placeholder token at its position in the text and no ImageBlock.
C17_BlocksInDocumentOrder ==
    para_pc = "returned" =>
        /\ \A i \in 1..Len(para_children) :
              ValidImage(para_children[i]) =>
                  \E p \in 1..Len(para_result) : ImageInPlace(i, p)
        /\ Cardinality(ImageBlocksIn(para_result, Len(para_result)))
              = Cardinality(ValidImagesIn(para_children, Len(para_children)))
        /\ ConcatTexts(TextBlocksOf(para_result)) = RunTexts(para_children)

\* ------------------------------------------------------------ table handler
\* Rows of the table handled in SpecTable.
MaxRows == 2

ParagraphElem(attrs, children) == [tag |-> "paragraph", attrs |-> attrs, children |-> children]

\* Paragraph("", converter.base_style): the block of a cell without content.
EmptyBlock == TextBlock("", "base_style")

\* Line 303: cell_content.extend(para_handler.handle(converter, p))
extend_cell(cell_content, r) ==
    IF r.ok THEN Ok(cell_content \o r.val) ELSE Raise

\* Lines 301-303: the blocks of one cell from paragraph i on; acc is the
\* content so far, or the exception.
RECURSIVE cell_blocks(_, _, _)
cell_blocks(acc, paras, i) ==
    IF ~acc.ok \/ i > Len(paras) THEN acc
    ELSE cell_blocks(extend_cell(acc.val, paragraph_handle(paras[i])), paras, i + 1)

\* Line 304: the cell joins row_items, with an empty paragraph when it has
\* no content.
append_cell(items, c) ==
    IF c.ok THEN Ok(Append(items, IF c.val # <<>> THEN c.val ELSE <<EmptyBlock>>))
    ELSE Raise

\* Lines 298-304: row_items from cell i on; acc is the list so far, or the
\* exception.
RECURSIVE resolve_row(_, _, _)
resolve_row(acc, cells, i) ==
    IF ~acc.ok \/ i > Len(cells) THEN acc
    ELSE resolve_row(append_cell(acc.val, cell_blocks(Ok(<<>>), cells[i], 1)),
                     cells, i + 1)

\* Lines 307-314: [needs_split, max_len] after the loop over row_items.
RECURSIVE split_check(_, _, _)
split_check(row_items, i, acc) ==
    IF i > Len(row_items) THEN acc
    ELSE LET n == Len(row_items[i])
         IN split_check(row_items, i + 1,
              IF n > MAX_PARAGRAPHS_PER_CELL
              THEN [needs_split |-> TRUE, max_len |-> Max2(acc.max_len, n)]
              ELSE IF n > acc.max_len THEN [acc EXCEPT !.max_len = n]
              ELSE acc)

\* A count of sub-rows rounded down.
split_count_floor(max_len) == max_len \div MAX_PARAGRAPHS_PER_CELL

\* Line 317: math.ceil(max_len / MAX_PARAGRAPHS_PER_CELL).
split_count(max_len) ==
    IF max_len % MAX_PARAGRAPHS_PER_CELL = 0
    THEN max_len \div MAX_PARAGRAPHS_PER_CELL
    ELSE max_len \div MAX_PARAGRAPHS_PER_CELL + 1

\* Slices one block short: the last block of every full slice is left out.
sub_row_short(row_items, i) ==
    LET start == i * MAX_PARAGRAPHS_PER_CELL
        end == start + MAX_PARAGRAPHS_PER_CELL - 1
    IN [c \in 1..Len(row_items) |->
          IF start < Len(row_items[c])
          THEN (IF SubSeq(row_items[c], start + 1, Min2(end, Len(row_items[c]))) # <<>>
                THEN SubSeq(row_items[c], start + 1, Min2(end, Len(row_items[c])))
                ELSE <<EmptyBlock>>)
          ELSE <<EmptyBlock>>]

\* Lines 319-326: sub-row i of a split row.
sub_row(row_items, i) ==
    LET start == i * MAX_PARAGRAPHS_PER_CELL
        end == start + MAX_PARAGRAPHS_PER_CELL
    IN [c \in 1..Len(row_items) |->
          IF start < Len(row_items[c])
          THEN (IF SubSeq(row_items[c], start + 1, Min2(end, Len(row_items[c]))) # <<>>
                THEN SubSeq(row_items[c], start + 1, Min2(end, Len(row_items[c])))
                ELSE <<EmptyBlock>>)
          ELSE <<EmptyBlock>>]

\* Lines 332-339: col_widths, None unless columnSpans has col_count numbers.
col_widths(col_count, col_spans) ==
    IF Len(col_spans) = col_count /\ \A k \in 1..Len(col_spans) : col_spans[k].kind = "num"
    THEN [k \in 1..Len(col_spans) |-> col_spans[k].val]
    ELSE <<>>

\* Lines 349-353: the border command of the table style.
border_style(border) ==
    IF border \in {"borderCell", "border"} THEN "GRID"
    ELSE IF border = "borderOuter" THEN "BOX"
    ELSE "none"

\* Lines 355-357: the LongTable the handler returns.
LongTable(table_data, widths, border) ==
    [kind |-> "LongTable", data |-> table_data, colWidths |-> widths,
     border |-> border_style(border)]

\* ------------------------------------------------------------ SpecTable
\* One call of TableHandler.handle: a step per <row>, a step per sub-row of a
\* split row, and the construction of the LongTable.  table_rows is the part
\* of the row list the loop has consumed; row_start is the length of
\* table_data when the last row was taken up.
VARIABLES table_rows, row_items, table_data, splits, split_i, row_start,
          col_count, table_result, table_pc

tableVars == <<table_rows, row_items, table_data, splits, split_i, row_start,
               col_count, table_result, table_pc>>

\* A paragraph of one text run of two characters at offset k: one block.
TextPara(k) == ParagraphElem(PlainAttrs, <<ContentRun(Num(k), Num(2))>>)
\* Text, an inline image, text: two text blocks and an image.
ImagePara ==
    ParagraphElem(PlainAttrs,
        <<ContentRun(Num(0), Num(1)), ImageRun(Picture(100, 50)), Node("space")>>)
BadPara == ParagraphElem(ParaAttrs(Absent, Absent, Bad, Absent, Absent, Absent), <<>>)

CellOf(n) == [k \in 1..n |-> TextPara(k - 1)]

CellInputs ==
    { <<>>, CellOf(1), CellOf(MAX_PARAGRAPHS_PER_CELL),
      CellOf(MAX_PARAGRAPHS_PER_CELL + 1), CellOf(2 * MAX_PARAGRAPHS_PER_CELL + 1),
      <<ImagePara, TextPara(3)>>, <<BadPara>> }

RowInputs ==
    {<<c>> : c \in CellInputs}
      \cup {<<a, b>> : a \in CellInputs, b \in CellInputs}
      \cup { <<CellOf(2 * MAX_PARAGRAPHS_PER_CELL + 1), <<>>, CellOf(2)>> }

TableAttrInputs ==
    { [columnCount |-> Absent, columnSpans |-> <<Bad>>, border |-> "borderCell"],
      [columnCount |-> Num(2), columnSpans |-> <<Num(100), Num(200)>>, border |-> "borderOuter"],
      [columnCount |-> Num(2), columnSpans |-> <<Num(100), Bad>>, border |-> "borderNone"],
      [columnCount |-> Num(3), columnSpans |-> <<Num(100)>>, border |-> "border"],
      [columnCount |-> Bad, columnSpans |-> <<Bad>>, border |-> "borderCell"] }

TableIdle ==
    /\ table_rows = <<>>
    /\ row_items = <<>>
    /\ table_data = <<>>
    /\ splits = 0
    /\ split_i = 0
    /\ row_start = 0
    /\ col_count = 0
    /\ table_result = <<>>
    /\ table_pc = "idle"

TableInit ==
    /\ table_rows = <<>>
    /\ row_items = <<>>
    /\ table_data = <<>>
    /\ splits = 0
    /\ split_i = 0
    /\ row_start = 0
    /\ col_count = 0
    /\ table_result = <<>>
    /\ table_pc = "rows"

\* Lines 297-317 and 328-329: the next row is resolved; a row that needs no
\* split joins table_data, any other goes to the split loop.
TableRow ==
    /\ table_pc = "rows"
    /\ Len(table_rows) < MaxRows
    /\ \E row \in RowInputs :
         /\ table_rows' = Append(table_rows, row)
         /\ row_start' = Len(table_data)
         /\ \E r \in {resolve_row(Ok(<<>>), row, 1)} :
               IF ~r.ok
               THEN /\ table_pc' = "raised"
                    /\ UNCHANGED <<row_items, table_data, splits, split_i>>
               ELSE \E chk \in {split_check(r.val, 1,
                                       [needs_split |-> FALSE, max_len |-> 0])} :
                       /\ row_items' = r.val
                       /\ IF chk.needs_split
                          THEN /\ splits' = split_count(chk.max_len)
                               /\ split_i' = 0
                               /\ table_pc' = "split"
                               /\ UNCHANGED table_data
                          ELSE /\ table_data' = Append(table_data, r.val)
                               /\ table_pc' = "rows"
                               /\ UNCHANGED <<splits, split_i>>
    /\ UNCHANGED <<col_count, table_result>>

\* Lines 318-327: one iteration of the loop over range(splits).
TableSplit ==
    /\ table_pc = "split"
    /\ IF split_i < splits
       THEN /\ table_data' = Append(table_data, sub_row(row_items, split_i))
            /\ split_i' = split_i + 1
            /\ UNCHANGED table_pc
       ELSE /\ table_pc' = "rows"
            /\ UNCHANGED <<table_data, split_i>>
    /\ UNCHANGED <<table_rows, row_items, splits, row_start, col_count, table_result>>

\* Lines 331-357, when the rows are exhausted.
TableStyle ==
    /\ table_pc = "rows"
    /\ \E attrs \in TableAttrInputs :
         \E cc \in {ParseNum(attrs.columnCount, 1)} :
            IF ~cc.ok
            THEN /\ table_pc' = "raised"
                 /\ UNCHANGED <<col_count, table_result>>
            ELSE /\ col_count' = cc.val
                 /\ table_result' =
                      <<LongTable(table_data, col_widths(cc.val, attrs.columnSpans),
                                  attrs.border)>>
                 /\ table_pc' = "returned"
    /\ UNCHANGED <<table_rows, row_items, table_data, splits, split_i, row_start>>

TableNext == TableRow \/ TableSplit \/ TableStyle

\* ------------------------------------------------------------ claims: table
\* C1: every row of the grid of the returned table has exactly columnCount
\* cells.
C1_RowsHaveColumnCount ==
    table_pc = "returned" =>
        \A r \in 1..Len(table_data) : Len(table_data[r]) = col_count

CeilDiv(a, b) == (a + b - 1) \div b

RECURSIVE MaxBlocks(_)
MaxBlocks(cells) ==
    IF cells = <<>> THEN 0 ELSE Max2(Len(Head(cells)), MaxBlocks(Tail(cells)))

\* The rows of table_data that come from the row taken up last.
EmittedRows == SubSeq(table_data, row_start + 1, Len(table_data))

RowDone == table_pc \in {"rows", "returned"} /\ table_rows # <<>>

\* C2: a row with a cell of more than N = MAX_PARAGRAPHS_PER_CELL blocks
\* becomes ceil(max / N) consecutive sub-rows, sub-row i holding of every cell
\* the blocks i*N .. (i+1)*N - 1, or one empty block where the cell has none;
\* any other row is emitted as it is.
C2_RowSplit ==
    RowDone =>
        LET N == MAX_PARAGRAPHS_PER_CELL
            most == MaxBlocks(row_items)
        IN IF most > N
           THEN /\ Len(EmittedRows) = CeilDiv(most, N)
                /\ \A i \in 0..(Len(EmittedRows) - 1) :
                     /\ Len(EmittedRows[i + 1]) = Len(row_items)
                     /\ \A c \in 1..Len(row_items) :
                          EmittedRows[i + 1][c] =
                             IF i * N < Len(row_items[c])
                             THEN SubSeq(row_items[c], i * N + 1,
                                         Min2((i + 1) * N, Len(row_items[c])))
                             ELSE <<EmptyBlock>>
           ELSE EmittedRows = <<row_items>>

\* Cells of 7 and 1 blocks: three sub-rows, the second cell empty in the last two.
C2_Witness ==
    /\ RowDone
    /\ Len(row_items) = 2
    /\ Len(row_items[1]) = 2 * MAX_PARAGRAPHS_PER_CELL + 1
    /\ Len(row_items[2]) = 1
    /\ row_items[2] # <<EmptyBlock>>
    /\ Len(EmittedRows) = 3
    /\ EmittedRows[1][2] = row_items[2]
    /\ EmittedRows[2][2] = <<EmptyBlock>>
    /\ EmittedRows[3][2] = <<EmptyBlock>>

\* Sub-row i (from 0) holds blocks of a cell of n blocks; otherwise its slice
\* is the empty block the split puts there.
HoldsContent(i, n) == i * MAX_PARAGRAPHS_PER_CELL < n

\* The slices of column c over the sub-rows from sub-row i on, one after the
\* other, without the empty blocks the split added for a cell of n blocks.
RECURSIVE ColumnContent(_, _, _, _)
ColumnContent(rows, c, i, n) ==
    IF i >= Len(rows) THEN <<>>
    ELSE (IF HoldsContent(i, n) THEN rows[i + 1][c] ELSE <<>>)
           \o ColumnContent(rows, c, i + 1, n)

WasSplit == RowDone /\ MaxBlocks(row_items) > MAX_PARAGRAPHS_PER_CELL

\* C29: for every column of a split row, the slices of the column over the
\* emitted sub-rows, in order and without the empty blocks added by the
\* split, are together exactly the block list of the cell; a slice the split
\* filled is one empty block, and every sub-row has every column.
C29_SplitPreservesCells ==
    WasSplit =>
        /\ \A i \in 1..Len(EmittedRows) : Len(EmittedRows[i]) = Len(row_items)
        /\ \A c \in 1..Len(row_items) :
             /\ ColumnContent(EmittedRows, c, 0, Len(row_items[c])) = row_items[c]
             /\ \A i \in 0..(Len(EmittedRows) - 1) :
                  ~HoldsContent(i, Len(row_items[c])) =>
                      EmittedRows[i + 1][c] = <<EmptyBlock>>

\* Cells of 4 and 1 blocks: two sub-rows, the first cell cut after its third
\* block, the second filled in the second sub-row.
C29_Witness ==
    /\ WasSplit
    /\ Len(row_items) = 2
    /\ Len(row_items[1]) = MAX_PARAGRAPHS_PER_CELL + 1
    /\ Len(row_items[2]) = 1
    /\ Len(EmittedRows) = 2
    /\ Len(EmittedRows[1][1]) = MAX_PARAGRAPHS_PER_CELL
    /\ EmittedRows[2][1] = <<row_items[1][MAX_PARAGRAPHS_PER_CELL + 1]>>
    /\ EmittedRows[2][2] = <<EmptyBlock>>

\* ------------------------------------------------------------ table handler, whole
\* Lines 316-329: the rows one row of the table adds to table_data.
row_output(items) ==
    LET chk == split_check(items, 1, [needs_split |-> FALSE, max_len |-> 0])
    IN IF chk.needs_split
       THEN [i \in 1..split_count(chk.max_len) |-> sub_row(items, i - 1)]
       ELSE <<items>>

\* Lines 316-329 for a resolved row, or the exception of resolving it.
extend_table(data, r) ==
    IF r.ok THEN Ok(data \o row_output(r.val)) ELSE Raise

\* Lines 297-329: table_data from row i on; acc is the data so far, or the
\* exception.
RECURSIVE table_rows_loop(_, _, _)
table_rows_loop(acc, rows, i) ==
    IF ~acc.ok \/ i > Len(rows) THEN acc
    ELSE table_rows_loop(extend_table(acc.val, resolve_row(Ok(<<>>), rows[i], 1)),
                         rows, i + 1)

\* Lines 331-357 on the table_data of lines 297-329.
table_with_data(data, attrs) ==
    LET cc == ParseNum(attrs.columnCount, 1)
    IN IF ~data.ok \/ ~cc.ok THEN Raise
       ELSE Ok(<<LongTable(data.val, col_widths(cc.val, attrs.columnSpans),
                           attrs.border)>>)

\* TableHandler.handle: the list holding the LongTable, or the exception.
table_handle(table_elem) ==
    table_with_data(table_rows_loop(Ok(<<>>), table_elem.rows, 1), table_elem.attrs)

\* PageBreakHandler.handle
page_break_handle(elem) == Ok(<<[kind |-> "PageBreak"]>>)

\* ------------------------------------------------------------ registry
\* PluginRegistry._handlers after the three register calls of lines 365-367.
DefaultHandlers ==
    [tag \in {"paragraph", "table", "page-break"} |->
        IF tag = "paragraph" THEN "ParagraphHandler"
        ELSE IF tag = "table" THEN "TableHandler"
        ELSE "PageBreakHandler"]

\* handler_cls(): the object a construction gives; serial tells the objects
\* of one class apart.
NewInstance(cls, serial) == [kind |-> "handler", cls |-> cls, serial |-> serial]

\* PluginRegistry.get_handler_instance run without interruption:
\* _handler_instances afterwards.
instances_after_get(handlers, instances, tag, serial) ==
    IF tag \notin DOMAIN instances /\ tag \in DOMAIN handlers
    THEN [t \in DOMAIN instances \cup {tag} |->
            IF t = tag THEN NewInstance(handlers[tag], serial) ELSE instances[t]]
    ELSE instances

\* Line 167: cls._handler_instances.get(tag)
instance_get(instances, tag) ==
    IF tag \in DOMAIN instances THEN instances[tag] ELSE None

\* handler.handle(self, elem), by the class of the instance.
handler_handle(handler, elem) ==
    IF handler.cls = "ParagraphHandler" THEN paragraph_handle(elem)
    ELSE IF handler.cls = "TableHandler" THEN table_handle(elem)
    ELSE page_break_handle(elem)

\* ------------------------------------------------------------ element dispatch
Spacer == [kind |-> "Spacer", width |-> 1, height |-> 5]

IsSpace(ch) == ch \in {" ", "\n", "\t"}

\* str.strip()
RECURSIVE py_strip(_)
py_strip(s) ==
    IF s = "" THEN ""
    ELSE IF IsSpace(SubSeq(s, 1, 1)) THEN py_strip(SubSeq(s, 2, Len(s)))
    ELSE IF IsSpace(SubSeq(s, Len(s), Len(s))) THEN py_strip(SubSeq(s, 1, Len(s) - 1))
    ELSE s

\* Line 570: the marked paragraph of an element without handler.
UnknownBlock(tag, text) ==
    TextBlock("[UNKNOWN: " \o tag \o "] " \o text, "Unknown")

\* An unknown element that leaves nothing in the output.
handle_unknown_element_dropped(pdf_elements, elem) == pdf_elements

\* UDFConverter._handle_unknown_element: pdf_elements afterwards.  elem.text is
\* ''.join(elem.itertext()).
handle_unknown_element(pdf_elements, elem) ==
    LET text == py_strip(elem.text)
    IN IF text # ""
       THEN pdf_elements \o <<UnknownBlock(elem.tag, text), Spacer>>
       ELSE pdf_elements

\* Lines 553-556 without the try of line 551: the exception leaves the loop.
extend_pdf_elements_unguarded(pdf_elements, r, tag) ==
    IF r.ok
    THEN Ok(pdf_elements \o r.val
              \o (IF tag \in {"paragraph", "table"} THEN <<Spacer>> ELSE <<>>))
    ELSE Raise

\* Lines 551-558: the flowables of the handler join pdf_elements, with a
\* spacer after a paragraph or table; the exception of the handler is logged
\* and nothing is added.
extend_pdf_elements(pdf_elements, r, tag) ==
    IF r.ok
    THEN Ok(pdf_elements \o r.val
              \o (IF tag \in {"paragraph", "table"} THEN <<Spacer>> ELSE <<>>))
    ELSE Ok(pdf_elements)

\* Lines 550-558: the element has a handler.
dispatch_handled(pdf_elements, handler, elem) ==
    extend_pdf_elements(pdf_elements, handler_handle(handler, elem), elem.tag)

\* Lines 548-560: one iteration of the loop over the body.
dispatch(pdf_elements, handler, elem) ==
    IF handler # None THEN dispatch_handled(pdf_elements, handler, elem)
    ELSE Ok(handle_unknown_element(pdf_elements, elem))

\* Lines 529-531 and 538-540: the Paragraph flowables of one result join the
\* list; an exception leaves what the list holds.
extend_margin(acc, r) ==
    IF r.ok THEN [ok |-> TRUE, val |-> acc \o TextBlocksOf(r.val)]
    ELSE [ok |-> FALSE, val |-> acc]

\* Lines 526-531 and 535-540: the paragraphs of a header or footer from
\* paragraph i on; acc.val is the list so far, acc.ok whether no handler raised.
RECURSIVE margin_paragraphs(_, _, _)
margin_paragraphs(acc, paras, i) ==
    IF ~acc.ok \/ i > Len(paras) THEN acc
    ELSE margin_paragraphs(extend_margin(acc.val, paragraph_handle(paras[i])),
                           paras, i + 1)

\* ------------------------------------------------------------ page properties
\* DEFAULT_MARGIN_PTS, 42.5 points, in tenths of a point like every margin here.
DEFAULT_MARGIN_PTS == 425

\* UDFConverter.__init__, lines 392-397.
DefaultMargins ==
    [left |-> DEFAULT_MARGIN_PTS, right |-> DEFAULT_MARGIN_PTS,
     top |-> DEFAULT_MARGIN_PTS, bottom |-> DEFAULT_MARGIN_PTS]

\* ---- paths (posixpath)
StartsWith(s, p) == Len(s) >= Len(p) /\ SubSeq(s, 1, Len(p)) = p

\* s.replace(pat, ''): every occurrence of pat is removed, left to right.
RECURSIVE str_remove(_, _)
str_remove(s, pat) ==
    IF s = "" THEN ""
    ELSE IF StartsWith(s, pat) THEN str_remove(SubSeq(s, Len(pat) + 1, Len(s)), pat)
    ELSE SubSeq(s, 1, 1) \o str_remove(SubSeq(s, 2, Len(s)), pat)

\* s.split('/'): acc holds the finished components, cur the one being read.
RECURSIVE split_sep(_, _, _)
split_sep(s, cur, acc) ==
    IF s = "" THEN Append(acc, cur)
    ELSE IF SubSeq(s, 1, 1) = "/" THEN split_sep(SubSeq(s, 2, Len(s)), "", Append(acc, cur))
    ELSE split_sep(SubSeq(s, 2, Len(s)), cur \o SubSeq(s, 1, 1), acc)

\* '/'.join(comps)
RECURSIVE join_sep(_)
join_sep(comps) ==
    IF comps = <<>> THEN ""
    ELSE IF Len(comps) = 1 THEN comps[1]
    ELSE comps[1] \o "/" \o join_sep(Tail(comps))

\* The loop of posixpath.normpath over the components: "" and "." are
\* skipped, ".." removes the component before it, or stays when the path is
\* relative and nothing but ".." is before it.
RECURSIVE norm_comps(_, _, _)
norm_comps(comps, new_comps, initial_slashes) ==
    IF comps = <<>> THEN new_comps
    ELSE LET comp == Head(comps)
         IN IF comp = "" \/ comp = "." THEN norm_comps(Tail(comps), new_comps, initial_slashes)
            ELSE IF \/ comp # ".."
                    \/ (initial_slashes = 0 /\ new_comps = <<>>)
                    \/ (new_comps # <<>> /\ new_comps[Len(new_comps)] = "..")
                 THEN norm_comps(Tail(comps), Append(new_comps, comp), initial_slashes)
            ELSE IF new_comps # <<>>
                 THEN norm_comps(Tail(comps), SubSeq(new_comps, 1, Len(new_comps) - 1),
                                 initial_slashes)
            ELSE norm_comps(Tail(comps), new_comps, initial_slashes)

\* posixpath.normpath
normpath(path) ==
    IF path = "" THEN "."
    ELSE LET initial_slashes ==
                 IF ~StartsWith(path, "/") THEN 0
                 ELSE IF StartsWith(path, "//") /\ ~StartsWith(path, "///") THEN 2
                 ELSE 1
             body == join_sep(norm_comps(split_sep(path, "", <<>>), <<>>, initial_slashes))
             full == (IF initial_slashes = 2 THEN "//"
                      ELSE IF initial_slashes = 1 THEN "/" ELSE "") \o body
         IN IF full = "" THEN "." ELSE full

\* posixpath.join(a, b) for a directory a written without a trailing slash.
path_join(a, b) == IF StartsWith(b, "/") THEN b ELSE a \o "/" \o b

\* The components posixpath.commonpath compares: "" and "." are left out.
IsPathComp(c) == c # "" /\ c # "."
path_comps(path) == SelectSeq(split_sep(path, "", <<>>), IsPathComp)

RECURSIVE common_prefix(_, _)
common_prefix(a, b) ==
    IF a = <<>> \/ b = <<>> \/ Head(a) # Head(b) THEN <<>>
    ELSE <<Head(a)>> \o common_prefix(Tail(a), Tail(b))

\* posixpath.commonpath([a, b]) of two absolute paths.
commonpath(a, b) == "/" \o join_sep(common_prefix(path_comps(a), path_comps(b)))

\* os.path.dirname(os.path.abspath(self.output_path)), line 493.
out_dir == "/tmp/out"

\* Line 494-495: the path the source names.
full_path(source_path) ==
    normpath(path_join(out_dir,
        normpath(str_remove(str_remove(source_path, "/resources/"), "\\resources\\"))))

\* The file system the conversion runs on: its directories, and the files
\* besides bg.png of the output directory.
Directories == {"/", "/tmp", "/tmp/out", "/tmp/out2", "/etc"}
OtherFiles == {"/tmp/secret.png", "/tmp/out2/bg.png", "/etc/hosts"}

\* bgImageSource: the attribute and, in image, what the file bg.png of the
\* output directory holds (NoImage when there is no such file).
NoSource == [path |-> "", image |-> NoImage]
SourceFile(image) == [path |-> "bg.png", image |-> image]
SourcePath(path, image) == [path |-> path, image |-> image]

\* os.path.exists(path)
path_exists(path, source) ==
    \/ path \in Directories
    \/ path \in OtherFiles
    \/ (path = "/tmp/out/bg.png" /\ source.image.data # "none")

\* What is found at an existing path.
file_at(path, source) ==
    IF path = "/tmp/out/bg.png" THEN source.image
    ELSE IF path \in Directories THEN [data |-> "dir", width |-> 0, height |-> 0]
    ELSE [data |-> "noimg", width |-> 0, height |-> 0]

\* The reportlab Image made of a background image; it is drawn as it is.
BackgroundImage(image) ==
    [kind |-> "Image", width |-> image.width, height |-> image.height, ratio |-> <<1, 1>>]

\* Line 498: the path traversal check.
path_accepted(path, source) ==
    commonpath(out_dir, path) = out_dir /\ path_exists(path, source)

\* Lines 491-503: the external path.  Image(full_path) reads nothing of the
\* file when it is made (reportlab opens it lazily), whatever the path holds.
background_from_source(bg_image, source) ==
    IF path_accepted(full_path(source.path), source)
    THEN BackgroundImage(file_at(full_path(source.path), source))
    ELSE bg_image

\* Lines 483-490: the embedded base64 data.
background_from_data(bg_image, data) ==
    IF data.data = "badb64" THEN bg_image
    ELSE IF validate_image_safety(data) THEN BackgroundImage(data)
    ELSE bg_image

\* UDFConverter._process_background_image: self.bg_image after the call.
process_background_image(bg_image, data, source) ==
    IF data.data # "none" THEN background_from_data(bg_image, data)
    ELSE IF source.path # "" THEN background_from_source(bg_image, source)
    ELSE bg_image

\* Lines 471-473: the four margins read from <pageFormat>, or ValueError.
page_margins(fmt) ==
    LET l == ParseNum(fmt.leftMargin, DEFAULT_MARGIN_PTS)
        r == ParseNum(fmt.rightMargin, DEFAULT_MARGIN_PTS)
        t == ParseNum(fmt.topMargin, DEFAULT_MARGIN_PTS)
        b == ParseNum(fmt.bottomMargin, DEFAULT_MARGIN_PTS)
    IN IF ~l.ok THEN [ok |-> FALSE, val |-> DefaultMargins]
       ELSE IF ~r.ok THEN [ok |-> FALSE, val |-> [DefaultMargins EXCEPT !.left = l.val]]
       ELSE IF ~t.ok THEN [ok |-> FALSE,
                           val |-> [DefaultMargins EXCEPT !.left = l.val, !.right = r.val]]
       ELSE IF ~b.ok THEN [ok |-> FALSE,
                           val |-> [DefaultMargins EXCEPT !.left = l.val, !.right = r.val,
                                                          !.top = t.val]]
       ELSE Ok([left |-> l.val, right |-> r.val, top |-> t.val, bottom |-> b.val])

\* ------------------------------------------------------------ SpecPage
\* root.find('properties') and what _setup_page_properties makes of it.
VARIABLES properties, margins, bg_image, page_pc

pageVars == <<properties, margins, bg_image, page_pc>>

\* <pageFormat>: has_children says whether the element has child elements.
PageFormat(has_children, l, r, t, b) ==
    [present |-> TRUE, has_children |-> has_children,
     leftMargin |-> l, rightMargin |-> r, topMargin |-> t, bottomMargin |-> b]
NoPageFormat ==
    [present |-> FALSE, has_children |-> FALSE,
     leftMargin |-> Absent, rightMargin |-> Absent, topMargin |-> Absent,
     bottomMargin |-> Absent]

BgImage(data, source) == [present |-> TRUE, bgImageData |-> data, bgImageSource |-> source]
NoBgImage == [present |-> FALSE, bgImageData |-> NoImage, bgImageSource |-> NoSource]

PageFormatInputs ==
    { NoPageFormat,
      PageFormat(FALSE, Num(700), Num(700), Num(500), Num(500)),
      PageFormat(TRUE, Num(700), Absent, Num(500), Absent),
      PageFormat(TRUE, Num(700), Num(600), Bad, Num(500)),
      PageFormat(TRUE, Num(-100), Num(700), Num(0), Num(-5)) }

ImageInputs ==
    { Picture(100, 50), Picture(9460, 9460), Picture(10001, 10), Picture(10, 10001),
      Picture(10000, 8947),
      [data |-> "noimg", width |-> 0, height |-> 0] }

DataInputs == {NoImage, [data |-> "badb64", width |-> 0, height |-> 0]} \cup ImageInputs

SourcePathInputs ==
    { "bg.png", "/resources/bg.png", "./bg.png", "sub/../bg.png", "../out/bg.png",
      "missing.png", "../secret.png", "../../etc/hosts", "/etc/hosts", "//etc/hosts",
      "../out2/bg.png", "..", ".", "/resources/", "..\\resources\\/secret.png" }

SourceInputs ==
    {NoSource}
    \cup {SourceFile(image) : image \in ImageInputs}
    \cup {SourcePath(path, image) : path \in SourcePathInputs,
                                    image \in {NoImage, Picture(100, 50)}}

BgImageInputs ==
    {NoBgImage} \cup {BgImage(data, source) : data \in DataInputs, source \in SourceInputs}

PropertiesInputs ==
    {[present |-> FALSE, fmt |-> NoPageFormat, bg |-> NoBgImage]}
    \cup {[present |-> TRUE, fmt |-> fmt, bg |-> bg] :
              fmt \in PageFormatInputs, bg \in BgImageInputs}

\* "if props:" and "if fmt:": an Element without child elements is false.
PropsTruthy(props) == props.present /\ (props.fmt.present \/ props.bg.present)
FmtTruthy(fmt) == fmt.present /\ fmt.has_children

PageIdle ==
    /\ properties = None
    /\ margins = DefaultMargins
    /\ bg_image = None
    /\ page_pc = "idle"

\* UDFConverter.__init__: the state before _setup_page_properties.
PageInit ==
    /\ properties \in PropertiesInputs
    /\ margins = DefaultMargins
    /\ bg_image = None
    /\ page_pc = "props"

\* Lines 467-468: props = self.root.find('properties'); if props:
PageFind ==
    /\ page_pc = "props"
    /\ page_pc' = IF PropsTruthy(properties) THEN "format" ELSE "done"
    /\ UNCHANGED <<properties, margins, bg_image>>

\* Lines 469-473.
PageMargins ==
    /\ page_pc = "format"
    /\ IF FmtTruthy(properties.fmt)
       THEN \E r \in {page_margins(properties.fmt)} :
               /\ margins' = r.val
               /\ page_pc' = IF r.ok THEN "background" ELSE "raised"
       ELSE /\ page_pc' = "background"
            /\ UNCHANGED margins
    /\ UNCHANGED <<properties, bg_image>>

\* Lines 476-478.
PageBackground ==
    /\ page_pc = "background"
    /\ bg_image' =
          IF properties.bg.present
          THEN process_background_image(bg_image, properties.bg.bgImageData,
                                        properties.bg.bgImageSource)
          ELSE bg_image
    /\ page_pc' = "done"
    /\ UNCHANGED <<properties, margins>>

\* ------------------------------------------------------------ SpecRegistry
\* Threads calling get_handler_instance at once.
NThreads == 2
\* Calls of get_handler_instance each thread makes.
MaxCalls == 1

\* The class attributes of PluginRegistry (lines 148-150); lock is the thread
\* holding _lock, 0 when it is free.  built lists the tags a handler object
\* was constructed for, in the order of construction: the n-th object has
\* serial n.
VARIABLES handlers, handler_instances, lock, built

registryVars == <<handlers, handler_instances, lock, built>>

\* A thread inside get_handler_instance: its position, its tag, its
\* handler_cls, the object it constructed, the calls it has finished, and the
\* <<tag, result>> pairs the calls of all threads returned.
VARIABLES t_pc, t_tag, t_cls, t_obj, t_calls, returned

threadVars == <<t_pc, t_tag, t_cls, t_obj, t_calls, returned>>

Threads == 1..NThreads
CallTags == {"paragraph", "table", "custom"}

RegistryIdle ==
    /\ handlers = DefaultHandlers
    /\ handler_instances = <<>>
    /\ lock = 0
    /\ built = <<>>

ThreadsIdle ==
    /\ t_pc = <<>>
    /\ t_tag = <<>>
    /\ t_cls = <<>>
    /\ t_obj = <<>>
    /\ t_calls = <<>>
    /\ returned = {}

ThreadsInit ==
    /\ t_pc = [t \in Threads |-> "idle"]
    /\ t_tag = [t \in Threads |-> ""]
    /\ t_cls = [t \in Threads |-> ""]
    /\ t_obj = [t \in Threads |-> None]
    /\ t_calls = [t \in Threads |-> 0]
    /\ returned = {}

\* get_handler_instance(tag) is entered.
Call(t) ==
    /\ t_pc[t] = "idle"
    /\ t_calls[t] < MaxCalls
    /\ \E tag \in CallTags : t_tag' = [t_tag EXCEPT ![t] = tag]
    /\ t_pc' = [t_pc EXCEPT ![t] = "check1"]
    /\ UNCHANGED <<t_cls, t_obj, t_calls, returned, registryVars>>

\* Line 160: the check outside the lock.
Check1(t) ==
    /\ t_pc[t] = "check1"
    /\ t_pc' = [t_pc EXCEPT ![t] =
                  IF t_tag[t] \notin DOMAIN handler_instances THEN "acquire" ELSE "return"]
    /\ UNCHANGED <<t_tag, t_cls, t_obj, t_calls, returned, registryVars>>

\* A lock anyone may take at any time.
lock_available_always(holder) == TRUE

\* Line 161: "with cls._lock" can be entered when no thread holds the lock.
lock_available(holder) == holder = 0

Acquire(t) ==
    /\ t_pc[t] = "acquire"
    /\ lock_available(lock)
    /\ lock' = t
    /\ t_pc' = [t_pc EXCEPT ![t] = "check2"]
    /\ UNCHANGED <<t_tag, t_cls, t_obj, t_calls, returned, handlers,
                   handler_instances, built>>

\* Line 163: the check under the lock.
Check2(t) ==
    /\ t_pc[t] = "check2"
    /\ t_pc' = [t_pc EXCEPT ![t] =
                  IF t_tag[t] \notin DOMAIN handler_instances THEN "lookup" ELSE "release"]
    /\ UNCHANGED <<t_tag, t_cls, t_obj, t_calls, returned, registryVars>>

\* Lines 164-165: handler_cls = cls._handlers.get(tag); if handler_cls:
Lookup(t) ==
    /\ t_pc[t] = "lookup"
    /\ IF t_tag[t] \in DOMAIN handlers
       THEN /\ t_cls' = [t_cls EXCEPT ![t] = handlers[t_tag[t]]]
            /\ t_pc' = [t_pc EXCEPT ![t] = "construct"]
       ELSE /\ t_pc' = [t_pc EXCEPT ![t] = "release"]
            /\ UNCHANGED t_cls
    /\ UNCHANGED <<t_tag, t_obj, t_calls, returned, registryVars>>

\* Line 166, right-hand side: handler_cls()
Construct(t) ==
    /\ t_pc[t] = "construct"
    /\ t_obj' = [t_obj EXCEPT ![t] = NewInstance(t_cls[t], Len(built) + 1)]
    /\ built' = Append(built, t_tag[t])
    /\ t_pc' = [t_pc EXCEPT ![t] = "store"]
    /\ UNCHANGED <<t_tag, t_cls, t_calls, returned, handlers, handler_instances, lock>>

\* Line 166, the assignment: cls._handler_instances[tag] = ...
Store(t) ==
    /\ t_pc[t] = "store"
    /\ handler_instances' =
          [tag \in DOMAIN handler_instances \cup {t_tag[t]} |->
              IF tag = t_tag[t] THEN t_obj[t] ELSE handler_instances[tag]]
    /\ t_pc' = [t_pc EXCEPT ![t] = "release"]
    /\ UNCHANGED <<t_tag, t_cls, t_obj, t_calls, returned, handlers, lock, built>>

\* The end of the with block of line 161.
Release(t) ==
    /\ t_pc[t] = "release"
    /\ lock' = IF lock = t THEN 0 ELSE lock
    /\ t_pc' = [t_pc EXCEPT ![t] = "return"]
    /\ UNCHANGED <<t_tag, t_cls, t_obj, t_calls, returned, handlers,
                   handler_instances, built>>

\* Line 167: return cls._handler_instances.get(tag)
Return(t) ==
    /\ t_pc[t] = "return"
    /\ returned' = returned \cup {<<t_tag[t], instance_get(handler_instances, t_tag[t])>>}
    /\ t_calls' = [t_calls EXCEPT ![t] = @ + 1]
    /\ t_pc' = [t_pc EXCEPT ![t] = "idle"]
    /\ UNCHANGED <<t_tag, t_cls, t_obj, registryVars>>

\* ------------------------------------------------------------ SpecElements
\* Body elements dispatched in SpecElements.
MaxBody == 3

\* One call of UDFConverter._process_elements: the lookup of the elements
\* node, the header, the footer, and a step per element of the body.
\* elements_elem is the <elements> node of the document, body_seen the part of
\* the dispatched child list the loop has consumed, pending the children still
\* to come that the document fixes, and spans[k] = <<lo, hi>> the positions
\* lo+1..hi of pdf_elements that the k-th dispatched element added.
VARIABLES elements_elem, pending, body_seen, spans, para_handler,
          pdf_elements, header_paragraphs, footer_paragraphs, elem_pc

elemVars == <<elements_elem, pending, body_seen, spans, para_handler,
              pdf_elements, header_paragraphs, footer_paragraphs, elem_pc>>

MarginNode(tag, paras) == [tag |-> tag, children |-> paras, text |-> " \n "]

ElementsInputs ==
    { [present |-> FALSE, header |-> None, footer |-> None, has_body |-> FALSE],
      [present |-> TRUE, header |-> None, footer |-> None, has_body |-> TRUE],
      [present |-> TRUE, header |-> MarginNode("header", <<TextPara(1), ImagePara>>),
       footer |-> MarginNode("footer", <<TextPara(2)>>), has_body |-> TRUE],
      [present |-> TRUE, header |-> MarginNode("header", <<TextPara(1), BadPara>>),
       footer |-> None, has_body |-> TRUE],
      [present |-> TRUE, header |-> MarginNode("header", <<TextPara(1)>>),
       footer |-> MarginNode("footer", <<>>), has_body |-> FALSE],
      [present |-> TRUE,
       header |-> [tag |-> "header", children |-> <<TextPara(1)>>, text |-> "\n Draft \n"],
       footer |-> None, has_body |-> FALSE],
      [present |-> TRUE, header |-> None, footer |-> None, has_body |-> FALSE] }

TableElem(attrs, rows) == [tag |-> "table", attrs |-> attrs, rows |-> rows]
UnknownElem(tag, text) == [tag |-> tag, text |-> text]

BodyInputs ==
    { TextPara(0),
      ParagraphElem(PlainAttrs, <<>>),
      BadPara,
      TableElem([columnCount |-> Num(1), columnSpans |-> <<Num(100)>>,
                 border |-> "borderCell"], << <<CellOf(1)>> >>),
      TableElem([columnCount |-> Bad, columnSpans |-> <<Bad>>,
                 border |-> "borderCell"], << <<CellOf(1)>> >>),
      [tag |-> "page-break"],
      UnknownElem("custom", " XYZ\n"),
      UnknownElem("note", " \n") }

ElemIdle ==
    /\ elements_elem = None
    /\ pending = <<>>
    /\ body_seen = <<>>
    /\ spans = <<>>
    /\ para_handler = None
    /\ pdf_elements = <<>>
    /\ header_paragraphs = <<>>
    /\ footer_paragraphs = <<>>
    /\ elem_pc = "idle"

\* UDFConverter.__init__ (lines 388-390), for a document with the given
\* <elements>; the registry is as the module leaves it when imported, or
\* warmed by an earlier conversion.
ElemInit ==
    /\ elements_elem \in ElementsInputs
    /\ pending = <<>>
    /\ body_seen = <<>>
    /\ spans = <<>>
    /\ para_handler = None
    /\ pdf_elements = <<>>
    /\ header_paragraphs = <<>>
    /\ footer_paragraphs = <<>>
    /\ elem_pc = "find"
    /\ handlers = DefaultHandlers
    /\ lock = 0
    /\ \E warm \in BOOLEAN :
         /\ handler_instances =
              IF warm THEN instances_after_get(DefaultHandlers, <<>>, "paragraph", 1)
              ELSE <<>>
         /\ built = IF warm THEN <<"paragraph">> ELSE <<>>

\* The registry after get_handler_instance(tag), run without interruption.
RegistryGet(tag) ==
    /\ handler_instances' =
          instances_after_get(handlers, handler_instances, tag, Len(built) + 1)
    /\ built' =
          IF tag \notin DOMAIN handler_instances /\ tag \in DOMAIN handlers
          THEN Append(built, tag) ELSE built
    /\ UNCHANGED <<handlers, lock>>

\* Lines 517-521.
ElemFind ==
    /\ elem_pc = "find"
    /\ IF ~elements_elem.present
       THEN /\ elem_pc' = "raised"
            /\ UNCHANGED <<para_handler, registryVars>>
       ELSE /\ RegistryGet("paragraph")
            /\ para_handler' = instance_get(handler_instances', "paragraph")
            /\ elem_pc' = "header"
    /\ UNCHANGED <<elements_elem, pending, body_seen, spans, pdf_elements,
                   header_paragraphs, footer_paragraphs>>

\* The children of <elements> the document fixes when it has no <body>: the
\* header and the footer node, dispatched like any other child (line 544).
FixedChildren(elements) ==
    IF elements.has_body THEN <<>>
    ELSE (IF elements.header # None THEN <<elements.header>> ELSE <<>>)
           \o (IF elements.footer # None THEN <<elements.footer>> ELSE <<>>)

\* "if header and para_handler": an Element without children is false.
Truthy(node) == node # None /\ node.children # <<>>

\* Lines 524-531.
ElemHeader ==
    /\ elem_pc = "header"
    /\ IF Truthy(elements_elem.header) /\ para_handler # None
       THEN \E r \in {margin_paragraphs(Ok(header_paragraphs),
                                         elements_elem.header.children, 1)} :
               /\ header_paragraphs' = r.val
               /\ elem_pc' = IF r.ok THEN "footer" ELSE "raised"
       ELSE /\ elem_pc' = "footer"
            /\ UNCHANGED header_paragraphs
    /\ UNCHANGED <<elements_elem, pending, body_seen, spans, para_handler,
                   pdf_elements, footer_paragraphs, registryVars>>

\* Lines 533-544: the footer, and the choice of the node whose children are
\* dispatched.
ElemFooter ==
    /\ elem_pc = "footer"
    /\ IF Truthy(elements_elem.footer) /\ para_handler # None
       THEN \E r \in {margin_paragraphs(Ok(footer_paragraphs),
                                         elements_elem.footer.children, 1)} :
               /\ footer_paragraphs' = r.val
               /\ elem_pc' = IF r.ok THEN "body" ELSE "raised"
       ELSE /\ elem_pc' = "body"
            /\ UNCHANGED footer_paragraphs
    /\ pending' = FixedChildren(elements_elem)
    /\ UNCHANGED <<elements_elem, body_seen, spans, para_handler, pdf_elements,
                   header_paragraphs, registryVars>>

\* Lines 546-560 for the element elem.
DispatchElem(elem) ==
    /\ RegistryGet(elem.tag)
    /\ \E r \in {dispatch(pdf_elements, instance_get(handler_instances', elem.tag), elem)} :
         IF r.ok
         THEN /\ pdf_elements' = r.val
              /\ body_seen' = Append(body_seen, elem)
              /\ spans' = Append(spans, <<Len(pdf_elements), Len(r.val)>>)
              /\ elem_pc' = "body"
         ELSE /\ elem_pc' = "raised"
              /\ body_seen' = Append(body_seen, elem)
              /\ UNCHANGED <<pdf_elements, spans>>

ElemBody ==
    /\ elem_pc = "body"
    /\ IF pending # <<>>
       THEN /\ DispatchElem(Head(pending))
            /\ pending' = Tail(pending)
       ELSE /\ Len(body_seen) < MaxBody + Len(FixedChildren(elements_elem))
            /\ \E elem \in BodyInputs : DispatchElem(elem)
            /\ UNCHANGED pending
    /\ UNCHANGED <<elements_elem, para_handler, header_paragraphs, footer_paragraphs>>

\* The loop of line 546 ends.
ElemDone ==
    /\ elem_pc = "body"
    /\ pending = <<>>
    /\ elem_pc' = "done"
    /\ UNCHANGED <<elements_elem, pending, body_seen, spans, para_handler,
                   pdf_elements, header_paragraphs, footer_paragraphs, registryVars>>

\* ------------------------------------------------------------ SpecConvert
\* One run of UDFConverter.convert (lines 400-410).  root is the parsed
\* document, output_file what is at output_path, rendered the blocks handed to
\* doc.build, conv_result what convert returned, conv_pc the step convert is at.
VARIABLES root, output_file, rendered, conv_result, conv_pc

\* The entry point that runs the conversion, convert or convert_async, and
\* what awaiting convert_async gave.
VARIABLES caller, awaited

asyncVars == <<caller, awaited>>
convVars == <<root, output_file, rendered, conv_result, conv_pc, asyncVars>>
convVars_but_pc == <<root, output_file, rendered, conv_result, asyncVars>>

Pending == [kind |-> "pending"]
Raised == [kind |-> "raise"]

\* self.output_path, the value convert returns.
OutputPath == [kind |-> "str", val |-> "/tmp/out/out.pdf"]

\* What doc.build was given: nothing yet, or the blocks of line 608.
NotRendered == [done |-> FALSE, blocks |-> <<>>]
Rendered(blocks) == [done |-> TRUE, blocks |-> blocks]

\* Lines 64-87: FONT_LOAD_FAILED and DEV_MODE as the import of the module
\* leaves them; the import itself raises when both hold.
FontInputs ==
    { [FONT_LOAD_FAILED |-> FALSE, DEV_MODE |-> FALSE],
      [FONT_LOAD_FAILED |-> FALSE, DEV_MODE |-> TRUE],
      [FONT_LOAD_FAILED |-> TRUE, DEV_MODE |-> FALSE] }

\* UDFConverter._check_fonts: TRUE when it raises.  DEFAULT_FONT is
\* 'Times-Roman' exactly when the fonts failed to load.
check_fonts_raises(fonts) == fonts.FONT_LOAD_FAILED /\ fonts.DEV_MODE

\* The file at udf_path: missing, a ZIP holding content.xml, a ZIP without
\* it, an XML file, or a file that does not parse.
UdfInputs == {"missing", "zip", "zip_no_content_xml", "xml", "malformed"}

\* UDFConverter._parse_xml: TRUE when it raises.
parse_xml_raises(udf) == udf \in {"missing", "zip_no_content_xml", "malformed"}

\* The <content> child of the root: absent, or present with its text.
ContentInputs == {"absent", "text", "cdata"}

\* A missing <content> read as empty text.
extract_global_content_lenient(content) == FALSE

\* UDFConverter._extract_global_content: TRUE when it raises.
extract_global_content_raises(content) == content = "absent"

\* The <properties> of the documents converted in SpecConvert.
ConvPropertiesInputs ==
    { [present |-> FALSE, fmt |-> NoPageFormat, bg |-> NoBgImage],
      [present |-> TRUE, fmt |-> PageFormat(TRUE, Num(700), Absent, Num(500), Absent),
       bg |-> NoBgImage],
      [present |-> TRUE, fmt |-> PageFormat(TRUE, Num(700), Bad, Num(500), Absent),
       bg |-> NoBgImage],
      [present |-> TRUE, fmt |-> NoPageFormat,
       bg |-> BgImage(Picture(100, 50), NoSource)] }

ConvIdle ==
    /\ caller = "none"
    /\ awaited = Pending
    /\ root = None
    /\ output_file = "absent"
    /\ rendered = NotRendered
    /\ conv_result = None
    /\ conv_pc = "idle"

\* UDFConverter.__init__, lines 383-398; nothing is at output_path yet.
ConvInit ==
    /\ caller \in {"convert", "convert_async"}
    /\ awaited = Pending
    /\ root = None
    /\ output_file = "absent"
    /\ rendered = NotRendered
    /\ conv_result = None
    /\ conv_pc = "fonts"
    /\ PageIdle
    /\ ElemIdle
    /\ handlers = DefaultHandlers
    /\ lock = 0
    /\ \E warm \in BOOLEAN :
         /\ handler_instances =
              IF warm THEN instances_after_get(DefaultHandlers, <<>>, "paragraph", 1)
              ELSE <<>>
         /\ built = IF warm THEN <<"paragraph">> ELSE <<>>

\* Line 402: self._check_fonts()
ConvCheckFonts ==
    /\ conv_pc = "fonts"
    /\ \E fonts \in FontInputs :
         conv_pc' = IF check_fonts_raises(fonts) THEN "raised" ELSE "parse"
    /\ UNCHANGED <<root, output_file, rendered, conv_result, asyncVars>>
    /\ UNCHANGED <<pageVars, elemVars, registryVars>>

\* Line 403: self._parse_xml()
ConvParse ==
    /\ conv_pc = "parse"
    /\ \E udf \in UdfInputs :
         IF parse_xml_raises(udf)
         THEN conv_pc' = "raised" /\ UNCHANGED root
         ELSE /\ conv_pc' = "content"
              /\ \E content \in ContentInputs : root' = [content |-> content]
    /\ UNCHANGED <<output_file, rendered, conv_result, asyncVars>>
    /\ UNCHANGED <<pageVars, elemVars, registryVars>>

\* Line 404: self._extract_global_content(); _setup_page_properties is
\* entered next, and finds the <properties> of the document.
ConvExtract ==
    /\ conv_pc = "content"
    /\ IF extract_global_content_raises(root.content)
       THEN /\ conv_pc' = "raised"
            /\ UNCHANGED pageVars
       ELSE /\ conv_pc' = "page"
            /\ properties' \in ConvPropertiesInputs
            /\ page_pc' = "props"
            /\ UNCHANGED <<margins, bg_image>>
    /\ UNCHANGED <<root, output_file, rendered, conv_result, asyncVars>>
    /\ UNCHANGED <<elemVars, registryVars>>

\* Lines 405-407: _setup_page_properties has returned; _setup_styles, then
\* _process_elements is entered and finds the <elements> of the document.
ConvStyles ==
    /\ conv_pc = "page"
    /\ page_pc = "done"
    /\ conv_pc' = "elements"
    /\ elements_elem' \in ElementsInputs
    /\ elem_pc' = "find"
    /\ UNCHANGED <<pending, body_seen, spans, para_handler, pdf_elements,
                   header_paragraphs, footer_paragraphs>>
    /\ UNCHANGED <<convVars_but_pc, pageVars, registryVars>>

\* An exception of _setup_page_properties or _process_elements leaves convert.
ConvRaise ==
    /\ \/ conv_pc = "page" /\ page_pc = "raised"
       \/ conv_pc = "elements" /\ elem_pc = "raised"
    /\ conv_pc' = "raised"
    /\ UNCHANGED <<convVars_but_pc, pageVars, elemVars, registryVars>>

\* A convert that goes on after doc.build raised.
build_outcome_swallowed(built_ok) == "cleanup"

\* Line 408: an exception of _build_pdf leaves convert; nothing catches it.
build_outcome(built_ok) == IF built_ok THEN "cleanup" ELSE "raised"

\* Line 408: self._build_pdf().  doc.build lays the blocks out and writes the
\* file when it is through; a block it cannot lay out makes it raise.
ConvBuild ==
    /\ conv_pc = "elements"
    /\ elem_pc = "done"
    /\ rendered' = Rendered(pdf_elements)
    /\ \E built_ok \in BOOLEAN :
         /\ conv_pc' = build_outcome(built_ok)
         /\ output_file' = IF built_ok THEN "written" ELSE output_file
    /\ UNCHANGED <<root, conv_result, asyncVars>>
    /\ UNCHANGED <<pageVars, elemVars, registryVars>>

\* Lines 409-410: self._cleanup(); return self.output_path
ConvReturn ==
    /\ conv_pc = "cleanup"
    /\ pdf_elements' = None
    /\ root' = None
    /\ conv_result' = OutputPath
    /\ conv_pc' = "returned"
    /\ UNCHANGED <<output_file, rendered, asyncVars>>
    /\ UNCHANGED <<elements_elem, pending, body_seen, spans, para_handler,
                   header_paragraphs, footer_paragraphs, elem_pc>>
    /\ UNCHANGED <<pageVars, registryVars>>

\* An await that gives None when the worker's convert raised.
await_outcome_swallowed(pc, result) == IF pc = "raised" THEN None ELSE result

\* Lines 418-421: the future of run_in_executor holds what self.convert
\* returned, or the exception it raised, and await gives the one or raises the
\* other.
await_outcome(pc, result) == IF pc = "raised" THEN Raised ELSE result

\* UDFConverter.convert_async, lines 418-421, once the worker's convert is over.
ConvAwait ==
    /\ caller = "convert_async"
    /\ conv_pc \in {"returned", "raised"}
    /\ awaited = Pending
    /\ awaited' = await_outcome(conv_pc, conv_result)
    /\ UNCHANGED <<root, output_file, rendered, conv_result, conv_pc, caller>>
    /\ UNCHANGED <<pageVars, elemVars, registryVars>>

\* ------------------------------------------------------------ SpecTwice
\* A second UDFConverter, for the document of the first one, in the same
\* process: the two share the class-level PluginRegistry and nothing else.
\* The second converter reads the children of <elements> the first has met
\* (body_seen), so it runs after the first or alongside it, never ahead of it.
\* second_pos is the number of children it has dispatched.
VARIABLES second_pdf_elements, second_header_paragraphs, second_footer_paragraphs,
          second_para_handler, second_pos, second_pc

secondVars == <<second_pdf_elements, second_header_paragraphs,
                second_footer_paragraphs, second_para_handler, second_pos, second_pc>>

SecondIdle ==
    /\ second_pdf_elements = <<>>
    /\ second_header_paragraphs = <<>>
    /\ second_footer_paragraphs = <<>>
    /\ second_para_handler = None
    /\ second_pos = 0
    /\ second_pc = "idle"

\* convert_udf_to_pdf has not constructed the second converter yet.
SecondInit ==
    /\ second_pdf_elements = <<>>
    /\ second_header_paragraphs = <<>>
    /\ second_footer_paragraphs = <<>>
    /\ second_para_handler = None
    /\ second_pos = 0
    /\ second_pc = "new"

\* A list left where an earlier converter keeps its own.
new_list_leftover(existing) == existing

\* Lines 388-390: __init__ binds a new empty list to the instance, whatever
\* the lists of the converters that exist hold.
new_list(existing) == <<>>

\* A write that lands in the list of the other converter as well.
other_list_after_aliased(other, written) == written

\* Lines 388-390 and 555: self.pdf_elements is a list of this instance alone,
\* so the list of the other converter is what it was after this one extends
\* its own to written.
other_list_after(other, written) == other

\* Lines 617-624 and 383-398: convert_udf_to_pdf constructs the converter.
SecondNew ==
    /\ second_pc = "new"
    /\ second_pdf_elements' = new_list(pdf_elements)
    /\ second_header_paragraphs' = new_list(header_paragraphs)
    /\ second_footer_paragraphs' = new_list(footer_paragraphs)
    /\ second_pc' = "find"
    /\ UNCHANGED <<second_para_handler, second_pos, elemVars, registryVars>>

\* Lines 517-521.
SecondFind ==
    /\ second_pc = "find"
    /\ IF ~elements_elem.present
       THEN /\ second_pc' = "raised"
            /\ UNCHANGED <<second_para_handler, registryVars>>
       ELSE /\ RegistryGet("paragraph")
            /\ second_para_handler' = instance_get(handler_instances', "paragraph")
            /\ second_pc' = "header"
    /\ UNCHANGED <<second_pdf_elements, second_header_paragraphs,
                   second_footer_paragraphs, second_pos, elemVars>>

\* Lines 524-531.
SecondHeader ==
    /\ second_pc = "header"
    /\ IF Truthy(elements_elem.header) /\ second_para_handler # None
       THEN \E r \in {margin_paragraphs(Ok(second_header_paragraphs),
                                         elements_elem.header.children, 1)} :
               /\ second_header_paragraphs' = r.val
               /\ second_pc' = IF r.ok THEN "footer" ELSE "raised"
       ELSE /\ second_pc' = "footer"
            /\ UNCHANGED second_header_paragraphs
    /\ UNCHANGED <<second_pdf_elements, second_footer_paragraphs,
                   second_para_handler, second_pos, elemVars, registryVars>>

\* Lines 533-540.
SecondFooter ==
    /\ second_pc = "footer"
    /\ IF Truthy(elements_elem.footer) /\ second_para_handler # None
       THEN \E r \in {margin_paragraphs(Ok(second_footer_paragraphs),
                                         elements_elem.footer.children, 1)} :
               /\ second_footer_paragraphs' = r.val
               /\ second_pc' = IF r.ok THEN "body" ELSE "raised"
       ELSE /\ second_pc' = "body"
            /\ UNCHANGED second_footer_paragraphs
    /\ UNCHANGED <<second_pdf_elements, second_header_paragraphs,
                   second_para_handler, second_pos, elemVars, registryVars>>

\* Lines 546-560 for the next child of the document.
SecondBody ==
    /\ second_pc = "body"
    /\ second_pos < Len(body_seen)
    /\ RegistryGet(body_seen[second_pos + 1].tag)
    /\ \E r \in {dispatch(second_pdf_elements,
                          instance_get(handler_instances', body_seen[second_pos + 1].tag),
                          body_seen[second_pos + 1])} :
         /\ second_pdf_elements' = IF r.ok THEN r.val ELSE second_pdf_elements
         /\ second_pc' = IF r.ok THEN "body" ELSE "raised"
         /\ pdf_elements' = other_list_after(pdf_elements, second_pdf_elements')
    /\ second_pos' = second_pos + 1
    /\ UNCHANGED <<second_header_paragraphs, second_footer_paragraphs,
                   second_para_handler, elements_elem, pending, body_seen, spans,
                   para_handler, header_paragraphs, footer_paragraphs, elem_pc>>

\* The loop of line 546 ends: the document has no child left.
SecondDone ==
    /\ second_pc = "body"
    /\ elem_pc = "done"
    /\ second_pos = Len(body_seen)
    /\ second_pc' = "done"
    /\ UNCHANGED <<second_pdf_elements, second_header_paragraphs,
                   second_footer_paragraphs, second_para_handler, second_pos,
                   elemVars, registryVars>>

\* ------------------------------------------------------------ SpecPool
\* Callers of convert_async in SpecPool.
MaxCallers == 3

\* ProcessPoolExecutor(max_workers=2), line 379.
max_workers == 2

\* Threads of one process, each with a running event loop, calling
\* convert_async (lines 412-421).  process_executor is the module-level
\* _process_executor, 0 for None and n for the n-th pool constructed;
\* pools_created counts the pools constructed.  c_new is the pool a caller
\* constructed and has not stored yet, c_pool the executor
\* get_process_executor returned to it.
VARIABLES process_executor, pools_created, c_pc, c_new, c_pool

poolVars == <<process_executor, pools_created, c_pc, c_new, c_pool>>

Callers == 1..MaxCallers

PoolIdle ==
    /\ process_executor = 0
    /\ pools_created = 0
    /\ c_pc = [c \in Callers |-> "idle"]
    /\ c_new = [c \in Callers |-> 0]
    /\ c_pool = [c \in Callers |-> 0]

\* Line 372: _process_executor = None when the module is imported.
PoolInit ==
    /\ process_executor = 0
    /\ pools_created = 0
    /\ c_pc = [c \in Callers |-> "call"]
    /\ c_new = [c \in Callers |-> 0]
    /\ c_pool = [c \in Callers |-> 0]

\* Line 377: if _process_executor is None.
executor_missing(executor) == executor = 0

\* Lines 419-420 and 376-377: convert_async calls get_process_executor, which
\* tests the global.
PoolCheck(c) ==
    /\ c_pc[c] = "call"
    /\ c_pc' = [c_pc EXCEPT ![c] = IF executor_missing(process_executor)
                                   THEN "construct" ELSE "return"]
    /\ UNCHANGED <<process_executor, pools_created, c_new, c_pool>>

\* Lines 378-379: the import and the constructor call.
PoolConstruct(c) ==
    /\ c_pc[c] = "construct"
    /\ pools_created' = pools_created + 1
    /\ c_new' = [c_new EXCEPT ![c] = pools_created + 1]
    /\ c_pc' = [c_pc EXCEPT ![c] = "store"]
    /\ UNCHANGED <<process_executor, c_pool>>

\* Line 379: the assignment to the global.
PoolStore(c) ==
    /\ c_pc[c] = "store"
    /\ process_executor' = c_new[c]
    /\ c_pc' = [c_pc EXCEPT ![c] = "return"]
    /\ UNCHANGED <<pools_created, c_new, c_pool>>

\* Lines 380 and 421: return _process_executor, and run_in_executor submits
\* self.convert to the executor returned.
PoolSubmit(c) ==
    /\ c_pc[c] = "return"
    /\ c_pool' = [c_pool EXCEPT ![c] = process_executor]
    /\ c_pc' = [c_pc EXCEPT ![c] = "queued"]
    /\ UNCHANGED <<process_executor, pools_created, c_new>>

\* The conversions a pool is executing.
Executing(pool) == {c \in Callers : c_pc[c] = "running" /\ c_pool[c] = pool}

\* ProcessPoolExecutor: a submitted call starts when one of the pool's
\* max_workers processes is free.
PoolStart(c) ==
    /\ c_pc[c] = "queued"
    /\ Cardinality(Executing(c_pool[c])) < max_workers
    /\ c_pc' = [c_pc EXCEPT ![c] = "running"]
    /\ UNCHANGED <<process_executor, pools_created, c_new, c_pool>>

\* The worker is through with convert and the await of line 421 returns.
PoolFinish(c) ==
    /\ c_pc[c] = "running"
    /\ c_pc' = [c_pc EXCEPT ![c] = "done"]
    /\ UNCHANGED <<process_executor, pools_created, c_new, c_pool>>

\* ------------------------------------------------------------ SpecStyles
\* Start offsets and lengths of the text runs formatted in SpecStyles.
MaxRunStart == 2
MaxRunLen == 3

\* One call of ParagraphHandler._process_text_node (lines 227-241) on a
\* <content> run with style flags; run_chunk is the string it returned.
VARIABLES run_node, run_chunk, run_pc

stylesVars == <<run_node, run_chunk, run_pc>>

StylesIdle ==
    /\ run_node = Node("content")
    /\ run_chunk = ""
    /\ run_pc = "idle"

StyledRunInputs ==
    { Styled(ContentRun(Num(a), Num(n)), b, i, u) :
          a \in 0..MaxRunStart, n \in 0..MaxRunLen,
          b \in BOOLEAN, i \in BOOLEAN, u \in BOOLEAN }

StylesInit ==
    /\ run_node \in StyledRunInputs
    /\ run_chunk = ""
    /\ run_pc = "call"

\* Lines 229-241.
RunFormat ==
    /\ run_pc = "call"
    /\ \E r \in {process_text_node(run_node)} :
          /\ run_chunk' = IF r.ok THEN r.val ELSE run_chunk
          /\ run_pc' = IF r.ok THEN "returned" ELSE "raised"
    /\ UNCHANGED run_node

\* ------------------------------------------------------------ SpecCounter
\* Users calling increment_counter, and the calls they make in all.
MaxUsers == 2
MaxIncrements == 4

\* max_retries of increment_counter (counter_manager.py, line 175).
max_retries == 3

\* The counter item of the SharePoint list: sp_count is its Current_Count
\* field and sp_etag its eTag, a version the server changes at every update.
\* sp_unacknowledged counts the updates the server made whose answer never
\* reached the caller.  Per user: u_pc is where the call is, u_retry its retry_count, u_count and
\* u_etag what it read, u_calls the calls it has begun, u_true the calls that
\* returned True, u_last how its last call ended.
VARIABLES sp_count, sp_etag, sp_unacknowledged, u_pc, u_retry, u_count, u_etag, u_calls, u_true, u_last

counterVars == <<sp_count, sp_etag, sp_unacknowledged, u_pc, u_retry, u_count, u_etag, u_calls, u_true, u_last>>

Users == 1..MaxUsers

RECURSIVE CallsBegun(_, _)
CallsBegun(calls, n) == IF n = 0 THEN 0 ELSE calls[n] + CallsBegun(calls, n - 1)

\* The value of the counter before any of the calls.
InitialCount == 1

CounterIdle ==
    /\ sp_count = InitialCount
    /\ sp_etag = 1
    /\ sp_unacknowledged = 0
    /\ u_pc = [u \in Users |-> "off"]
    /\ u_retry = [u \in Users |-> 0]
    /\ u_count = [u \in Users |-> 0]
    /\ u_etag = [u \in Users |-> 0]
    /\ u_calls = [u \in Users |-> 0]
    /\ u_true = [u \in Users |-> 0]
    /\ u_last = [u \in Users |-> "none"]

CounterInit ==
    /\ sp_count = InitialCount
    /\ sp_etag = 1
    /\ sp_unacknowledged = 0
    /\ u_pc = [u \in Users |-> "idle"]
    /\ u_retry = [u \in Users |-> 0]
    /\ u_count = [u \in Users |-> 0]
    /\ u_etag = [u \in Users |-> 0]
    /\ u_calls = [u \in Users |-> 0]
    /\ u_true = [u \in Users |-> 0]
    /\ u_last = [u \in Users |-> "none"]

\* Lines 175-176 of counter_manager.py: a call of increment_counter begins.
CounterCall(u) ==
    /\ u_pc[u] = "idle"
    /\ CallsBegun(u_calls, MaxUsers) < MaxIncrements
    /\ u_calls' = [u_calls EXCEPT ![u] = @ + 1]
    /\ u_retry' = [u_retry EXCEPT ![u] = 0]
    /\ u_pc' = [u_pc EXCEPT ![u] = "read"]
    /\ UNCHANGED <<sp_count, sp_etag, sp_unacknowledged, u_count, u_etag, u_true, u_last>>

\* Lines 180-197: the token, the list and the item are fetched; the item
\* gives the count and the eTag.  A request that fails raises out of the call
\* (lines 242-257).
CounterRead(u) ==
    /\ u_pc[u] = "read"
    /\ \E fetched \in BOOLEAN :
         IF fetched
         THEN /\ u_count' = [u_count EXCEPT ![u] = sp_count]
              /\ u_etag' = [u_etag EXCEPT ![u] = sp_etag]
              /\ u_pc' = [u_pc EXCEPT ![u] = "patch"]
              /\ UNCHANGED u_last
         ELSE /\ u_pc' = [u_pc EXCEPT ![u] = "idle"]
              /\ u_last' = [u_last EXCEPT ![u] = "error"]
              /\ UNCHANGED <<u_count, u_etag>>
    /\ UNCHANGED <<sp_count, sp_etag, sp_unacknowledged, u_retry, u_calls, u_true>>

\* A PATCH sent without the If-Match header.
if_match_omitted(etag) == 0

\* Lines 210-211: the If-Match header carries the eTag read; 0 is no header.
if_match(etag) == etag

\* The server's answer to the PATCH: 412 when If-Match names another
\* version than the item's, 200 otherwise.
patch_status(header, etag) == IF header # 0 /\ header # etag THEN 412 ELSE 200

\* Lines 228-231 and 178: after a 412 the loop goes on while retry_count is
\* under max_retries, and line 263 raises when it is not.
after_conflict(retry_count) ==
    IF retry_count < max_retries THEN "read" ELSE "idle"

\* Lines 197-240 and 259-263: the PATCH and what follows its answer.  The
\* request is refused (a status other than 200 and 412, or no connection),
\* answered, or served with the answer lost (the timeout of line 225); a
\* refused or lost request raises (lines 233, 242-257).
CounterPatch(u) ==
    /\ u_pc[u] = "patch"
    /\ \E outcome \in {"refused", "answered", "lost"} :
         IF outcome = "refused"
         THEN /\ u_pc' = [u_pc EXCEPT ![u] = "idle"]
              /\ u_last' = [u_last EXCEPT ![u] = "error"]
              /\ UNCHANGED <<sp_count, sp_etag, sp_unacknowledged, u_retry, u_true>>
         ELSE IF patch_status(if_match(u_etag[u]), sp_etag) = 412
         THEN IF outcome = "answered"
              THEN /\ u_retry' = [u_retry EXCEPT ![u] = @ + 1]
                   /\ u_pc' = [u_pc EXCEPT ![u] = after_conflict(u_retry[u] + 1)]
                   /\ u_last' = [u_last EXCEPT ![u] =
                                    IF after_conflict(u_retry[u] + 1) = "idle"
                                    THEN "conflict" ELSE @]
                   /\ UNCHANGED <<sp_count, sp_etag, sp_unacknowledged, u_true>>
              ELSE /\ u_pc' = [u_pc EXCEPT ![u] = "idle"]
                   /\ u_last' = [u_last EXCEPT ![u] = "error"]
                   /\ UNCHANGED <<sp_count, sp_etag, sp_unacknowledged, u_retry, u_true>>
         ELSE /\ sp_count' = u_count[u] + 1
              /\ sp_etag' = sp_etag + 1
              /\ u_pc' = [u_pc EXCEPT ![u] = "idle"]
              /\ UNCHANGED u_retry
              /\ IF outcome = "answered"
                 THEN /\ u_true' = [u_true EXCEPT ![u] = @ + 1]
                      /\ u_last' = [u_last EXCEPT ![u] = "True"]
                      /\ UNCHANGED sp_unacknowledged
                 ELSE /\ sp_unacknowledged' = sp_unacknowledged + 1
                      /\ u_last' = [u_last EXCEPT ![u] = "error"]
                      /\ UNCHANGED u_true
    /\ UNCHANGED <<u_count, u_etag, u_calls>>

\* ------------------------------------------------------------ SpecRegister
\* Tables handled in SpecRegister.
MaxTables == 2

\* One thread using PluginRegistry after the module is imported: register,
\* get_handler_instance, and the handling of a <table> by the instance the
\* registry serves.  reg_tag and reg_result are the tag and the result of the
\* last get_handler_instance since the last register (None when there was
\* none), cell_handlers lists the objects TableHandler.handle made for the
\* paragraphs of its cells (line 295), handle_result is what the last handle
\* call gave.  In this specification built lists every handler object
\* constructed, those of line 295 under "cell".
VARIABLES reg_tag, reg_result, cell_handlers, handle_result

registerVars == <<reg_tag, reg_result, cell_handlers, handle_result>>

RegisterIdle ==
    /\ reg_tag = ""
    /\ reg_result = None
    /\ cell_handlers = <<>>
    /\ handle_result = Raise

\* The module imported: lines 148-150 and 365-367.
RegisterInit ==
    /\ handlers = DefaultHandlers
    /\ handler_instances = <<>>
    /\ lock = 0
    /\ built = <<>>
    /\ reg_tag = ""
    /\ reg_result = None
    /\ cell_handlers = <<>>
    /\ handle_result = Raise

\* The register calls made: a tag and the handler class given for it.
RegisterInputs ==
    { <<"paragraph", "PageBreakHandler">>, <<"paragraph", "ParagraphHandler">>,
      <<"custom", "PageBreakHandler">> }

\* Lines 153-155: _handlers after register(tag, handler).
handlers_after_register(registered, tag, handler) ==
    [t \in DOMAIN registered \cup {tag} |-> IF t = tag THEN handler ELSE registered[t]]

\* Lines 153-155: register leaves _handler_instances as it is.
instances_after_register(instances, tag) == instances

\* PluginRegistry.register(tag, handler), under the lock.
RegisterHandler ==
    /\ lock = 0
    /\ \E reg \in RegisterInputs :
         /\ handlers' = handlers_after_register(handlers, reg[1], reg[2])
         /\ handler_instances' = instances_after_register(handler_instances, reg[1])
    /\ reg_tag' = ""
    /\ reg_result' = None
    /\ UNCHANGED <<lock, built, cell_handlers, handle_result>>

\* PluginRegistry.get_handler_instance(tag), lines 157-167.
GetInstance ==
    /\ \E tag \in CallTags :
         /\ RegistryGet(tag)
         /\ reg_tag' = tag
         /\ reg_result' = instance_get(handler_instances', tag)
    /\ UNCHANGED <<cell_handlers, handle_result>>

\* The objects constructed once get_handler_instance(tag) has run.
built_after_get(registered, instances, objects, tag) ==
    IF tag \notin DOMAIN instances /\ tag \in DOMAIN registered
    THEN Append(objects, tag) ELSE objects

\* Line 295: para_handler = ParagraphHandler(), the n-th object of the process.
cell_para_handler(n) == NewInstance("ParagraphHandler", n)

\* Lines 548-552 for a <table>, and TableHandler.handle (lines 287-357): the
\* instance comes from the registry, and handle makes its own
\* ParagraphHandler for the paragraphs of the cells.
HandleTable ==
    /\ Len(cell_handlers) < MaxTables
    /\ handler_instances' =
          instances_after_get(handlers, handler_instances, "table", Len(built) + 1)
    /\ \E objects \in {built_after_get(handlers, handler_instances, built, "table")} :
          /\ cell_handlers' = Append(cell_handlers, cell_para_handler(Len(objects) + 1))
          /\ built' = Append(objects, "cell")
    /\ \E table_elem \in {e \in BodyInputs : e.tag = "table"} :
          handle_result' = table_handle(table_elem)
    /\ UNCHANGED <<handlers, lock, reg_tag, reg_result>>

\* ------------------------------------------------------------ claims: dispatch
Registered(elem) == elem.tag \in DOMAIN handlers

\* What the handler registered for the element's tag returns for it.
HandlerResult(elem) == handler_handle(NewInstance(handlers[elem.tag], 0), elem)

HandlerRaises(elem) == Registered(elem) /\ ~HandlerResult(elem).ok
HandlerReturns(elem) == Registered(elem) /\ HandlerResult(elem).ok

\* The blocks the k-th dispatched element added to pdf_elements.
SpanBlocks(k) == SubSeq(pdf_elements, spans[k][1] + 1, spans[k][2])

\* The blocks of the dispatched elements lie in pdf_elements one after the
\* other, in the order of the elements, and nothing else does.
SpansInDocumentOrder ==
    /\ \A k \in 1..Len(spans) :
         /\ spans[k][1] = (IF k = 1 THEN 0 ELSE spans[k - 1][2])
         /\ spans[k][1] <= spans[k][2]
    /\ Len(pdf_elements) = (IF spans = <<>> THEN 0 ELSE spans[Len(spans)][2])

IsMarkedPlaceholder(b) == IsTextBlock(b) /\ b.style = "Unknown"

C4_HandlerFailureIsLocal ==
    /\ elem_pc = "raised" => body_seen = <<>>
    /\ SpansInDocumentOrder
    /\ \A k \in 1..Len(body_seen) :
         HandlerReturns(body_seen[k]) =>
             /\ k <= Len(spans)
             /\ SpanBlocks(k) =
                  HandlerResult(body_seen[k]).val
                    \o (IF body_seen[k].tag \in {"paragraph", "table"}
                        THEN <<Spacer>> ELSE <<>>)

C4_Witness ==
    /\ elem_pc = "done"
    /\ Len(body_seen) = 3
    /\ HandlerReturns(body_seen[1]) /\ Len(SpanBlocks(1)) = 2
    /\ HandlerRaises(body_seen[2])
    /\ HandlerReturns(body_seen[3]) /\ Len(SpanBlocks(3)) = 2
    /\ Len(pdf_elements) = 4

\* C5: a body element whose handler raises leaves a marked placeholder block
\* at its position in pdf_elements.
C5_FailedElementPlaceholder ==
    \A k \in 1..Len(spans) :
        HandlerRaises(body_seen[k]) =>
            \E j \in 1..Len(SpanBlocks(k)) : IsMarkedPlaceholder(SpanBlocks(k)[j])

\* The k-th dispatched element is the header or the footer node of the document.
IsMarginNode(elem) == elem.tag \in {"header", "footer"}

\* C27: the header and the footer node add no block, and no unknown-element
\* placeholder, to pdf_elements, also when <elements> has no <body> and its
\* own children are the ones dispatched.
C27_MarginNodesAddNoBodyBlock ==
    \A k \in 1..Len(spans) :
        IsMarginNode(body_seen[k]) => SpanBlocks(k) = <<>>

\* The Paragraph flowables of the header or footer paragraphs, from paragraph
\* i on, whose handler call returns.
RECURSIVE ReturnedMarginBlocks(_, _)
ReturnedMarginBlocks(paras, i) ==
    IF i > Len(paras) THEN <<>>
    ELSE (IF paragraph_handle(paras[i]).ok
          THEN TextBlocksOf(paragraph_handle(paras[i]).val) ELSE <<>>)
           \o ReturnedMarginBlocks(paras, i + 1)

MarginCollected(node, list) ==
    (Truthy(node) /\ para_handler # None) =>
        list = ReturnedMarginBlocks(node.children, 1)

\* C28: the exception of the paragraph handler on a header or footer
\* paragraph does not leave _process_elements: the paragraphs that return are
\* collected and the footer and the body are processed after it.
C28_MarginFailureIsLocal ==
    /\ elements_elem.present => elem_pc # "raised"
    /\ elem_pc \in {"footer", "body", "done"} =>
          MarginCollected(elements_elem.header, header_paragraphs)
    /\ elem_pc \in {"body", "done"} =>
          MarginCollected(elements_elem.footer, footer_paragraphs)

\* ------------------------------------------------------------ claims: registry
\* The number of handler objects constructed for a tag.
BuiltFor(tag) == Cardinality({n \in 1..Len(built) : built[n] = tag})

\* C6: under any interleaving of concurrent get_handler_instance calls, a
\* registered tag has its handler class constructed at most once, and every
\* call on that tag returns the one cached instance.
C6_OneInstancePerTag ==
    \A tag \in DOMAIN handlers :
        /\ BuiltFor(tag) <= 1
        /\ \A ret \in returned :
              ret[1] = tag =>
                  /\ ret[2] # None
                  /\ tag \in DOMAIN handler_instances
                  /\ ret[2] = handler_instances[tag]
        /\ \A t \in DOMAIN t_pc :
              (t_pc[t] = "return" /\ t_tag[t] = tag) => tag \in DOMAIN handler_instances

\* Two threads found the same registered tag uncached at the same time: one
\* has built and stored the instance and returned it, the other went through
\* the lock and has returned as well.
C6_Witness ==
    \E t1 \in DOMAIN t_pc, t2 \in DOMAIN t_pc :
        /\ t1 # t2
        /\ t_tag[t1] = "table" /\ t_tag[t2] = "table"
        /\ t_obj[t1] # None
        /\ t_cls[t2] = "" /\ lock = t2 /\ t_pc[t2] = "release"
        /\ t_calls[t1] = 1
        /\ BuiltFor("table") = 1

\* ------------------------------------------------------------ claims: images
\* The image a <bgImage> element names: the embedded data when there is any,
\* the file at the external path otherwise.
NamedImage(bg) ==
    IF bg.bgImageData.data # "none" THEN bg.bgImageData
    ELSE IF path_exists(full_path(bg.bgImageSource.path), bg.bgImageSource)
         THEN file_at(full_path(bg.bgImageSource.path), bg.bgImageSource)
    ELSE NoImage

OverPixelCeiling(image) ==
    image.data = "img" /\ image.width * image.height > MAX_IMAGE_PIXELS

\* C10: no image of more than MAX_IMAGE_PIXELS pixels is used: a background
\* image of that size, embedded as base64 data or referenced by an external
\* path, leaves bg_image unset and the conversion goes on.
C10_OversizedImageNeverUsed ==
    (page_pc = "done" /\ properties.present /\ properties.bg.present
       /\ OverPixelCeiling(NamedImage(properties.bg)))
        => bg_image = None

\* ------------------------------------------------------------ claims: image validation
\* The embedded image data of the document's <bgImage>, once base64 decoded.
Embedded == properties.bg.bgImageData

EmbeddedValidated ==
    /\ page_pc = "done"
    /\ PropsTruthy(properties)
    /\ properties.bg.present
    /\ Embedded.data \in {"img", "noimg"}

\* C22: validate_image_safety returns the image exactly when the bytes decode
\* to an image of at most MAX_IMAGE_PIXELS pixels, at most MAX_IMAGE_WIDTH wide
\* and at most MAX_IMAGE_HEIGHT high; otherwise it returns None, a decode error
\* included, and the caller goes on: the embedded background image is used in
\* the first case and left unset in the second.
C22_ImageReturnedIffWithinLimits ==
    EmbeddedValidated =>
        IF /\ Embedded.data = "img"
           /\ Embedded.width * Embedded.height <= 89478485
           /\ Embedded.width <= 10000
           /\ Embedded.height <= 10000
        THEN bg_image = BackgroundImage(Embedded)
        ELSE bg_image = None

C22_Witness ==
    /\ EmbeddedValidated
    /\ Embedded.data = "img"
    /\ Embedded.width <= 10000
    /\ Embedded.height <= 10000
    /\ Embedded.width * Embedded.height > 89478485
    /\ bg_image = None

\* ------------------------------------------------------------ claims: background path
\* The source of a <bgImage> that the external-path branch has handled.
SourceHandled ==
    /\ page_pc = "done" /\ properties.present /\ properties.bg.present
    /\ properties.bg.bgImageData.data = "none"
    /\ properties.bg.bgImageSource.path # ""

ResolvedPath == full_path(properties.bg.bgImageSource.path)

\* The out_dir components are a proper prefix of the path's components.
StrictlyInside(path) ==
    LET d == path_comps(out_dir)
        c == path_comps(path)
    IN Len(c) > Len(d) /\ SubSeq(c, 1, Len(d)) = d

\* C11: an external path reference sets the background only when the
\* resolved path lies strictly inside the output directory; a reference that
\* resolves outside leaves it unset, and a reference to an existing file
\* inside it is accepted.
C11_BackgroundPathInsideOutputDir ==
    SourceHandled =>
        /\ bg_image # None => StrictlyInside(ResolvedPath)
        /\ (StrictlyInside(ResolvedPath)
              /\ path_exists(ResolvedPath, properties.bg.bgImageSource))
             => bg_image # None

\* ------------------------------------------------------------ claims: margins
\* C18: after page-property extraction each of the four margins is
\* non-negative, whatever the margin attributes of <pageFormat> are.
C18_MarginsNonNegative ==
    page_pc \in {"background", "done"} =>
        /\ margins.left >= 0
        /\ margins.right >= 0
        /\ margins.top >= 0
        /\ margins.bottom >= 0

\* The margin attribute is absent or does not parse as a number.
NoNumber(attr) == attr.kind # "num"

\* C19: a margin attribute that is absent or unparsable gives the default
\* margin for its side, and _setup_page_properties does not make the
\* conversion fail.
C19_MarginDefaultsNeverFail ==
    /\ page_pc # "raised"
    /\ ~(conv_pc = "raised" /\ elem_pc = "idle" /\ properties # None)
    /\ page_pc \in {"background", "done"} =>
          /\ NoNumber(properties.fmt.leftMargin) => margins.left = DEFAULT_MARGIN_PTS
          /\ NoNumber(properties.fmt.rightMargin) => margins.right = DEFAULT_MARGIN_PTS
          /\ NoNumber(properties.fmt.topMargin) => margins.top = DEFAULT_MARGIN_PTS
          /\ NoNumber(properties.fmt.bottomMargin) => margins.bottom = DEFAULT_MARGIN_PTS

\* The four margin attributes of <pageFormat> are numbers.
MarginsDeclared(fmt) ==
    /\ fmt.present
    /\ fmt.leftMargin.kind = "num"
    /\ fmt.rightMargin.kind = "num"
    /\ fmt.topMargin.kind = "num"
    /\ fmt.bottomMargin.kind = "num"

\* C26: margins declared as numbers on <pageFormat> are the margins used for
\* rendering: after _setup_page_properties self.margins holds the declared
\* values, also when <properties> or <pageFormat> has attributes only and no
\* child nodes.
C26_DeclaredMarginsUsed ==
    (page_pc \in {"background", "done"} /\ properties.present
       /\ MarginsDeclared(properties.fmt)) =>
        margins = [left |-> properties.fmt.leftMargin.val,
                   right |-> properties.fmt.rightMargin.val,
                   top |-> properties.fmt.topMargin.val,
                   bottom |-> properties.fmt.bottomMargin.val]

\* ------------------------------------------------------------ claims: convert
\* C12: the output file is written only by the render step: while convert is
\* in an earlier step, or has failed in one, nothing is at the output path, and
\* convert returns the output path only after the file was rendered.
C12_OutputWrittenOnlyByRender ==
    /\ conv_pc \in {"fonts", "parse", "content", "page", "elements"}
          => output_file = "absent"
    /\ (conv_pc = "raised" /\ ~rendered.done) => output_file = "absent"
    /\ conv_result # None
          => (conv_pc = "returned" /\ rendered.done /\ output_file = "written")

\* _process_elements failed after a header paragraph was handled, and convert
\* has failed with it.
C12_Witness ==
    /\ conv_pc = "raised"
    /\ elem_pc = "raised"
    /\ header_paragraphs # <<>>
    /\ output_file = "absent"

\* C13: a document without a <content> node makes convert fail in
\* _extract_global_content: convert gets no further than that step, no page
\* property is read, no element is dispatched and nothing is rendered.
C13_MissingContentFails ==
    (root # None /\ root.content = "absent") =>
        /\ conv_pc \in {"content", "raised"}
        /\ page_pc = "idle"
        /\ elem_pc = "idle"
        /\ body_seen = <<>>
        /\ pdf_elements = <<>>
        /\ ~rendered.done
        /\ output_file = "absent"
        /\ conv_result = None

C13_Witness ==
    /\ root # None
    /\ root.content = "absent"
    /\ conv_pc = "raised"

\* C14: <properties> and <elements> are optional: without <properties> the
\* page geometry is the default one, without <elements> the body is empty,
\* and neither makes convert fail.
C14_OptionalNodes ==
    /\ (properties # None /\ ~properties.present /\ page_pc # "props")
          => (page_pc = "done" /\ margins = DefaultMargins /\ bg_image = None)
    /\ (elements_elem # None /\ ~elements_elem.present)
          => /\ elem_pc # "raised"
             /\ conv_pc # "raised" \/ rendered.done
             /\ conv_pc = "elements" => pdf_elements = <<>>

\* C15: convert_async completes as the convert it ran did: with the output
\* path when convert returned it, with a raised failure when convert raised,
\* never with success or an empty result after a failure.
C15_AsyncOutcomeIsSyncOutcome ==
    (caller = "convert_async" /\ awaited # Pending) =>
        /\ conv_pc = "returned" => (awaited = OutputPath /\ awaited = conv_result)
        /\ conv_pc = "raised" => awaited = Raised
        /\ conv_pc \in {"returned", "raised"}

C15_Witness ==
    /\ caller = "convert_async"
    /\ elem_pc = "raised"
    /\ conv_pc = "raised"
    /\ awaited = Raised

C21_OneBoundedPool ==
    /\ Cardinality({c \in Callers : c_pc[c] = "running"}) <= max_workers
    /\ \A c, d \in Callers :
          (c_pool[c] # 0 /\ c_pool[d] # 0) => c_pool[c] = c_pool[d]

\* ------------------------------------------------------------ claims: text styles
\* The text of a run: the span of the buffer it points at.
SpanOf(node) ==
    SubSeq(content_text, node.startOffset.val + 1,
           node.startOffset.val + node.length.val)

\* The tags of the set flags around the text: underline outermost, then bold,
\* then italic.
Nested(text, bold, italic, underline) ==
    (IF underline THEN "<u>" ELSE "") \o (IF bold THEN "<b>" ELSE "")
        \o (IF italic THEN "<i>" ELSE "") \o text
        \o (IF italic THEN "</i>" ELSE "") \o (IF bold THEN "</b>" ELSE "")
        \o (IF underline THEN "</u>" ELSE "")

\* C23: for each combination of the bold, italic and underline flags the
\* formatted run is its text inside the tags of exactly the flags that are
\* set, nested with underline outermost, then bold, then italic, and the
\* text alone when none is set.
C23_StylesNestUnderlineBoldItalic ==
    run_pc = "returned" =>
        run_chunk = Nested(SpanOf(run_node), run_node.bold, run_node.italic,
                           run_node.underline)

C23_Witness ==
    /\ run_pc = "returned"
    /\ run_node.bold
    /\ run_node.underline
    /\ ~run_node.italic
    /\ Len(SpanOf(run_node)) = 2
    /\ Len(run_chunk) = 16

\* ------------------------------------------------------------ claims: counter
RECURSIVE SumTrue(_)
SumTrue(n) == IF n = 0 THEN 0 ELSE u_true[n] + SumTrue(n - 1)

\* C24: increment_counter is an atomic increment under concurrent users: the
\* counter stands at its first value plus one for each call that returned
\* True (and one for each update whose answer was lost, which the call
\* reports as an error), whatever the interleaving; a call makes at most
\* max_retries attempts and ends on the conflict error only after
\* max_retries conflicts in a row.
C24_AtomicIncrement ==
    /\ sp_count = InitialCount + SumTrue(MaxUsers) + sp_unacknowledged
    /\ \A u \in Users :
          /\ u_pc[u] \in {"read", "patch"} => u_retry[u] < max_retries
          /\ (u_pc[u] = "idle" /\ u_last[u] = "conflict") => u_retry[u] = max_retries

C24_Witness ==
    /\ u_pc[1] = "idle"
    /\ u_last[1] = "conflict"
    /\ u_retry[1] = 3
    /\ u_true[2] = 3
    /\ sp_unacknowledged = 0
    /\ sp_count = InitialCount + 3

\* ------------------------------------------------------------ claims: register
\* C25: once register(tag, H) has returned, get_handler_instance(tag) returns
\* an instance of H, also when an instance of the class registered before for
\* the tag is in the cache.
C25_GetServesRegisteredClass ==
    (reg_result # None /\ reg_tag \in DOMAIN handlers) =>
        reg_result.cls = handlers[reg_tag]

\* Every ParagraphHandler object constructed so far, by the registry or by
\* TableHandler.handle.
ParagraphHandlersBuilt ==
    Cardinality({n \in 1..Len(built) :
                    built[n] = "paragraph" /\ "paragraph" \in DOMAIN handler_instances
                    /\ handler_instances["paragraph"].cls = "ParagraphHandler"})
        + Len(cell_handlers)

\* C30: the paragraphs of table cells are converted by the instance the
\* registry serves for 'paragraph': a process constructs at most one
\* paragraph handler, and the cells are handled by an instance of the class
\* registered for 'paragraph'.
C30_CellsUseRegistryInstance ==
    /\ ParagraphHandlersBuilt <= 1
    /\ \A i \in 1..Len(cell_handlers) :
          /\ cell_handlers[i] = instance_get(handler_instances, "paragraph")
          /\ cell_handlers[i].cls = handlers["paragraph"]

\* ------------------------------------------------------------ specifications
vars == <<paraVars, tableVars, pageVars, registryVars, threadVars, elemVars, convVars, secondVars, poolVars, stylesVars, counterVars, registerVars>>

\* ParagraphHandler.handle on one paragraph.
ParagraphInit == ConvIdle /\ SecondIdle /\ PoolIdle /\ StylesIdle /\ CounterIdle /\ RegisterIdle /\ ParaInit /\ TableIdle /\ PageIdle /\ RegistryIdle /\ ThreadsIdle /\ ElemIdle
ParagraphNext ==
    \/ ParaStart /\ UNCHANGED <<tableVars, pageVars, registryVars, threadVars, elemVars, convVars, secondVars, poolVars, stylesVars, counterVars, registerVars>>
    \/ ParaChild /\ UNCHANGED <<tableVars, pageVars, registryVars, threadVars, elemVars, convVars, secondVars, poolVars, stylesVars, counterVars, registerVars>>
    \/ ParaReturn /\ UNCHANGED <<tableVars, pageVars, registryVars, threadVars, elemVars, convVars, secondVars, poolVars, stylesVars, counterVars, registerVars>>
SpecParagraph == ParagraphInit /\ [][ParagraphNext]_vars

\* TableHandler.handle on one table.
TableSpecInit == ConvIdle /\ SecondIdle /\ PoolIdle /\ StylesIdle /\ CounterIdle /\ RegisterIdle /\ TableInit /\ ParaIdle /\ PageIdle /\ RegistryIdle /\ ThreadsIdle /\ ElemIdle
TableSpecNext ==
    \/ TableRow /\ UNCHANGED <<paraVars, pageVars, registryVars, threadVars, elemVars, convVars, secondVars, poolVars, stylesVars, counterVars, registerVars>>
    \/ TableSplit /\ UNCHANGED <<paraVars, pageVars, registryVars, threadVars, elemVars, convVars, secondVars, poolVars, stylesVars, counterVars, registerVars>>
    \/ TableStyle /\ UNCHANGED <<paraVars, pageVars, registryVars, threadVars, elemVars, convVars, secondVars, poolVars, stylesVars, counterVars, registerVars>>
SpecTable == TableSpecInit /\ [][TableSpecNext]_vars

\* UDFConverter._process_elements on one document.
ElementsInit == ConvIdle /\ SecondIdle /\ PoolIdle /\ StylesIdle /\ CounterIdle /\ RegisterIdle /\ ElemInit /\ ParaIdle /\ TableIdle /\ PageIdle /\ ThreadsIdle
ElementsNext ==
    \/ ElemFind /\ UNCHANGED <<paraVars, tableVars, pageVars, threadVars, convVars, secondVars, poolVars, stylesVars, counterVars, registerVars>>
    \/ ElemHeader /\ UNCHANGED <<paraVars, tableVars, pageVars, threadVars, convVars, secondVars, poolVars, stylesVars, counterVars, registerVars>>
    \/ ElemFooter /\ UNCHANGED <<paraVars, tableVars, pageVars, threadVars, convVars, secondVars, poolVars, stylesVars, counterVars, registerVars>>
    \/ ElemBody /\ UNCHANGED <<paraVars, tableVars, pageVars, threadVars, convVars, secondVars, poolVars, stylesVars, counterVars, registerVars>>
    \/ ElemDone /\ UNCHANGED <<paraVars, tableVars, pageVars, threadVars, convVars, secondVars, poolVars, stylesVars, counterVars, registerVars>>
SpecElements == ElementsInit /\ [][ElementsNext]_vars

\* Threads of one process calling PluginRegistry.get_handler_instance.
RegistryInit == ConvIdle /\ SecondIdle /\ PoolIdle /\ StylesIdle /\ CounterIdle /\ RegisterIdle /\ RegistryIdle /\ ThreadsInit /\ ParaIdle /\ TableIdle /\ PageIdle /\ ElemIdle
RegistryNext ==
    \/ \E t \in Threads : Call(t) /\ UNCHANGED <<paraVars, tableVars, pageVars, elemVars, convVars, secondVars, poolVars, stylesVars, counterVars, registerVars>>
    \/ \E t \in Threads : Check1(t) /\ UNCHANGED <<paraVars, tableVars, pageVars, elemVars, convVars, secondVars, poolVars, stylesVars, counterVars, registerVars>>
    \/ \E t \in Threads : Acquire(t) /\ UNCHANGED <<paraVars, tableVars, pageVars, elemVars, convVars, secondVars, poolVars, stylesVars, counterVars, registerVars>>
    \/ \E t \in Threads : Check2(t) /\ UNCHANGED <<paraVars, tableVars, pageVars, elemVars, convVars, secondVars, poolVars, stylesVars, counterVars, registerVars>>
    \/ \E t \in Threads : Lookup(t) /\ UNCHANGED <<paraVars, tableVars, pageVars, elemVars, convVars, secondVars, poolVars, stylesVars, counterVars, registerVars>>
    \/ \E t \in Threads : Construct(t) /\ UNCHANGED <<paraVars, tableVars, pageVars, elemVars, convVars, secondVars, poolVars, stylesVars, counterVars, registerVars>>
    \/ \E t \in Threads : Store(t) /\ UNCHANGED <<paraVars, tableVars, pageVars, elemVars, convVars, secondVars, poolVars, stylesVars, counterVars, registerVars>>
    \/ \E t \in Threads : Release(t) /\ UNCHANGED <<paraVars, tableVars, pageVars, elemVars, convVars, secondVars, poolVars, stylesVars, counterVars, registerVars>>
    \/ \E t \in Threads : Return(t) /\ UNCHANGED <<paraVars, tableVars, pageVars, elemVars, convVars, secondVars, poolVars, stylesVars, counterVars, registerVars>>
SpecRegistry == RegistryInit /\ [][RegistryNext]_vars

\* UDFConverter._setup_page_properties on one document.
PageSpecInit ==
    ConvIdle /\ SecondIdle /\ PoolIdle /\ StylesIdle /\ CounterIdle /\ RegisterIdle /\ PageInit /\ ParaIdle /\ TableIdle /\ RegistryIdle /\ ThreadsIdle /\ ElemIdle
PageNext ==
    \/ PageFind /\ UNCHANGED <<paraVars, tableVars, registryVars, threadVars, elemVars, convVars, secondVars, poolVars, stylesVars, counterVars, registerVars>>
    \/ PageMargins /\ UNCHANGED <<paraVars, tableVars, registryVars, threadVars, elemVars, convVars, secondVars, poolVars, stylesVars, counterVars, registerVars>>
    \/ PageBackground /\ UNCHANGED <<paraVars, tableVars, registryVars, threadVars, elemVars, convVars, secondVars, poolVars, stylesVars, counterVars, registerVars>>
SpecPage == PageSpecInit /\ [][PageNext]_vars

\* UDFConverter.convert on one document.
ConvertInit == ConvInit /\ ParaIdle /\ TableIdle /\ ThreadsIdle /\ SecondIdle /\ PoolIdle /\ StylesIdle /\ CounterIdle /\ RegisterIdle
ConvertNext ==
    \/ ConvCheckFonts /\ UNCHANGED <<paraVars, tableVars, threadVars, secondVars, poolVars, stylesVars, counterVars, registerVars>>
    \/ ConvParse /\ UNCHANGED <<paraVars, tableVars, threadVars, secondVars, poolVars, stylesVars, counterVars, registerVars>>
    \/ ConvExtract /\ UNCHANGED <<paraVars, tableVars, threadVars, secondVars, poolVars, stylesVars, counterVars, registerVars>>
    \/ PageFind /\ UNCHANGED <<paraVars, tableVars, threadVars, registryVars, elemVars, convVars, secondVars, poolVars, stylesVars, counterVars, registerVars>>
    \/ PageMargins /\ UNCHANGED <<paraVars, tableVars, threadVars, registryVars, elemVars, convVars, secondVars, poolVars, stylesVars, counterVars, registerVars>>
    \/ PageBackground /\ UNCHANGED <<paraVars, tableVars, threadVars, registryVars, elemVars, convVars, secondVars, poolVars, stylesVars, counterVars, registerVars>>
    \/ ConvStyles /\ UNCHANGED <<paraVars, tableVars, threadVars, secondVars, poolVars, stylesVars, counterVars, registerVars>>
    \/ ElemFind /\ UNCHANGED <<paraVars, tableVars, threadVars, pageVars, convVars, secondVars, poolVars, stylesVars, counterVars, registerVars>>
    \/ ElemHeader /\ UNCHANGED <<paraVars, tableVars, threadVars, pageVars, convVars, secondVars, poolVars, stylesVars, counterVars, registerVars>>
    \/ ElemFooter /\ UNCHANGED <<paraVars, tableVars, threadVars, pageVars, convVars, secondVars, poolVars, stylesVars, counterVars, registerVars>>
    \/ ElemBody /\ UNCHANGED <<paraVars, tableVars, threadVars, pageVars, convVars, secondVars, poolVars, stylesVars, counterVars, registerVars>>
    \/ ElemDone /\ UNCHANGED <<paraVars, tableVars, threadVars, pageVars, convVars, secondVars, poolVars, stylesVars, counterVars, registerVars>>
    \/ ConvRaise /\ UNCHANGED <<paraVars, tableVars, threadVars, secondVars, poolVars, stylesVars, counterVars, registerVars>>
    \/ ConvBuild /\ UNCHANGED <<paraVars, tableVars, threadVars, secondVars, poolVars, stylesVars, counterVars, registerVars>>
    \/ ConvReturn /\ UNCHANGED <<paraVars, tableVars, threadVars, secondVars, poolVars, stylesVars, counterVars, registerVars>>
    \/ ConvAwait /\ UNCHANGED <<paraVars, tableVars, threadVars, secondVars, poolVars, stylesVars, counterVars, registerVars>>
SpecConvert == ConvertInit /\ [][ConvertNext]_vars

\* Two conversions of one document, one after the other or interleaved.
TwiceInit ==
    ElemInit /\ SecondInit /\ PoolIdle /\ StylesIdle /\ CounterIdle /\ RegisterIdle /\ ConvIdle /\ ParaIdle /\ TableIdle /\ PageIdle /\ ThreadsIdle
TwiceNext ==
    \/ ElemFind /\ UNCHANGED <<paraVars, tableVars, pageVars, threadVars, convVars, secondVars, poolVars, stylesVars, counterVars, registerVars>>
    \/ ElemHeader /\ UNCHANGED <<paraVars, tableVars, pageVars, threadVars, convVars, secondVars, poolVars, stylesVars, counterVars, registerVars>>
    \/ ElemFooter /\ UNCHANGED <<paraVars, tableVars, pageVars, threadVars, convVars, secondVars, poolVars, stylesVars, counterVars, registerVars>>
    \/ ElemBody /\ UNCHANGED <<paraVars, tableVars, pageVars, threadVars, convVars, secondVars, poolVars, stylesVars, counterVars, registerVars>>
    \/ ElemDone /\ UNCHANGED <<paraVars, tableVars, pageVars, threadVars, convVars, secondVars, poolVars, stylesVars, counterVars, registerVars>>
    \/ SecondNew /\ UNCHANGED <<paraVars, tableVars, pageVars, threadVars, convVars, poolVars, stylesVars, counterVars, registerVars>>
    \/ SecondFind /\ UNCHANGED <<paraVars, tableVars, pageVars, threadVars, convVars, poolVars, stylesVars, counterVars, registerVars>>
    \/ SecondHeader /\ UNCHANGED <<paraVars, tableVars, pageVars, threadVars, convVars, poolVars, stylesVars, counterVars, registerVars>>
    \/ SecondFooter /\ UNCHANGED <<paraVars, tableVars, pageVars, threadVars, convVars, poolVars, stylesVars, counterVars, registerVars>>
    \/ SecondBody /\ UNCHANGED <<paraVars, tableVars, pageVars, threadVars, convVars, poolVars, stylesVars, counterVars, registerVars>>
    \/ SecondDone /\ UNCHANGED <<paraVars, tableVars, pageVars, threadVars, convVars, poolVars, stylesVars, counterVars, registerVars>>
SpecTwice == TwiceInit /\ [][TwiceNext]_vars

\* Threads calling convert_async at once.
PoolSpecInit ==
    PoolInit /\ StylesIdle /\ CounterIdle /\ RegisterIdle /\ ConvIdle /\ SecondIdle /\ ParaIdle /\ TableIdle /\ PageIdle /\ RegistryIdle
             /\ ThreadsIdle /\ ElemIdle
PoolOthers ==
    <<paraVars, tableVars, pageVars, registryVars, threadVars, elemVars, convVars, secondVars, stylesVars, counterVars, registerVars>>
PoolNext ==
    \/ \E c \in Callers : PoolCheck(c) /\ UNCHANGED PoolOthers
    \/ \E c \in Callers : PoolConstruct(c) /\ UNCHANGED PoolOthers
    \/ \E c \in Callers : PoolStore(c) /\ UNCHANGED PoolOthers
    \/ \E c \in Callers : PoolSubmit(c) /\ UNCHANGED PoolOthers
    \/ \E c \in Callers : PoolStart(c) /\ UNCHANGED PoolOthers
    \/ \E c \in Callers : PoolFinish(c) /\ UNCHANGED PoolOthers
SpecPool == PoolSpecInit /\ [][PoolNext]_vars

\* ParagraphHandler._process_text_node on one styled run.
StylesSpecInit ==
    StylesInit /\ CounterIdle /\ RegisterIdle /\ PoolIdle /\ ConvIdle /\ SecondIdle /\ ParaIdle /\ TableIdle /\ PageIdle
               /\ RegistryIdle /\ ThreadsIdle /\ ElemIdle
StylesNext ==
    RunFormat /\ UNCHANGED <<paraVars, tableVars, pageVars, registryVars, threadVars,
                             elemVars, convVars, secondVars, poolVars, counterVars, registerVars>>
SpecStyles == StylesSpecInit /\ [][StylesNext]_vars

\* Users of one SharePoint list calling increment_counter at once.
CounterSpecInit ==
    CounterInit /\ RegisterIdle /\ StylesIdle /\ PoolIdle /\ ConvIdle /\ SecondIdle /\ ParaIdle /\ TableIdle
                /\ PageIdle /\ RegistryIdle /\ ThreadsIdle /\ ElemIdle
CounterOthers ==
    <<paraVars, tableVars, pageVars, registryVars, threadVars, elemVars, convVars,
      secondVars, poolVars, stylesVars, registerVars>>
CounterNext ==
    \/ \E u \in Users : CounterCall(u) /\ UNCHANGED CounterOthers
    \/ \E u \in Users : CounterRead(u) /\ UNCHANGED CounterOthers
    \/ \E u \in Users : CounterPatch(u) /\ UNCHANGED CounterOthers
SpecCounter == CounterSpecInit /\ [][CounterNext]_vars

\* One thread registering handlers, asking for instances and handling tables.
RegisterSpecInit ==
    RegisterInit /\ CounterIdle /\ StylesIdle /\ PoolIdle /\ ConvIdle /\ SecondIdle /\ ParaIdle
                 /\ TableIdle /\ PageIdle /\ ThreadsIdle /\ ElemIdle
RegisterOthers ==
    <<paraVars, tableVars, pageVars, threadVars, elemVars, convVars, secondVars, poolVars,
      stylesVars, counterVars>>
RegisterNext ==
    \/ RegisterHandler /\ UNCHANGED RegisterOthers
    \/ GetInstance /\ UNCHANGED RegisterOthers
    \/ HandleTable /\ UNCHANGED RegisterOthers
SpecRegister == RegisterSpecInit /\ [][RegisterNext]_vars

\* ------------------------------------------------------------ claims: isolation
\* The fields of the first converter a conversion fills in.
FirstFields ==
    <<root, pdf_elements, header_paragraphs, footer_paragraphs, margins, bg_image,
      para_handler>>

====
